---- MODULE Spec2Model ----
(***************************************************************************)
(* CheckMate server: the connection handlers (server/src/main.rs), the     *)
(* per-connection client state (server/src/client_state.rs) and the        *)
(* coordination between handler tasks (server/src/task_communication.rs).  *)
(*                                                                         *)
(* Every handler is a tokio task.  A step of the model is the code a task  *)
(* runs between two suspension points (.await) at which another task can   *)
(* observe or change shared state: the registry behind its mutex, the      *)
(* bounded mpsc inboxes and the sockets.                                   *)
(*                                                                         *)
(* A panic unwinds the task that raised it (the default panic strategy):   *)
(* its locals are dropped, the code after the loop of handle_client_async  *)
(* does not run, and the other tasks go on.                                *)
(*                                                                         *)
(* Besides the handlers: the wire codec (common/src/server_command.rs), on *)
(* bytes; one direction of a connection, from the writer's queue through   *)
(* send_async, the socket and the BufReader to receive_async               *)
(* (common/src/communication.rs); the client process                       *)
(* (client/src/main.rs, client/src/action); what the watcher makes of a    *)
(* command's output (client/src/action/watch_action.rs); and the parsing   *)
(* of the client's command line (client/src/config.rs).  Each has a        *)
(* specification of its own, in which the rest stands still.               *)
(***************************************************************************)
EXTENDS Integers, Sequences, FiniteSets, TLC

\* ------------------------------------------------------------- bounds
\* connections the listener accepts in a run
MaxTasks == 3
\* frames the clients send in a run, over all the connections
MaxFrames == 2
\* the same, for the clients that wait for the server to be quiet
QuietFrames == 3
\* the same, for the clients that ask for refreshes
RefreshBound == 4
\* connections the listener accepts in a run with such clients
RefreshTasks == 2

\* ---------------------------------------------------- program constants
\* channel::<TaskMessage>(1) in handle_client_async
InboxCapacity == 1
\* messages_to_send_queue: channel(2) in ClientState::new
QueueCapacity == 2

Tasks == 0 .. (MaxTasks - 1)
Names == {"w1", "w2"}
Errors == {"e1", "e2"}

\* Option<String>: <<>> is None, <<s>> is Some(s)
None == <<>>
Some(s) == <<s>>
\* Result<(), String>: <<>> is Ok(()), <<m>> is Err(m)
StatusOk == <<>>
StatusErr(m) == <<m>>

\* ------------------------------------------------------------- frames
\* ServerCommand: a frame on the wire, in either direction
Frame(tag, str, flag, list) == [tag |-> tag, str |-> str, flag |-> flag, list |-> list]
Abort == Frame("Abort", "", FALSE, <<>>)
SetStatusOk == Frame("SetStatusOk", "", FALSE, <<>>)
SetStatusError(m) == Frame("SetStatusError", m, FALSE, <<>>)
GetStatuses(b) == Frame("GetStatuses", "", b, <<>>)
RefreshClientByName(n) == Frame("RefreshClientByName", n, FALSE, <<>>)
SetName(n) == Frame("SetName", n, FALSE, <<>>)
Statuses(l) == Frame("Statuses", "", FALSE, l)
Refresh == Frame("Refresh", "", FALSE, <<>>)
RefreshAllClients == Frame("RefreshAllClients", "", FALSE, <<>>)
ListClients == Frame("ListClients", "", FALSE, <<>>)
Clients(l) == Frame("Clients", "", FALSE, l)

\* the frames a client can put on the wire (the payloads are representatives)
ClientFrames ==
    {Abort, SetStatusOk, Refresh, RefreshAllClients, Statuses(<<>>)}
        \cup {SetStatusError(m) : m \in Errors}
        \cup {GetStatuses(b) : b \in BOOLEAN}
        \cup {RefreshClientByName(n) : n \in Names}
        \cup {SetName(n) : n \in Names}

\* ------------------------------------------------------ task messages
\* TaskMessage: what one handler puts into the inbox of another.  `from` is
\* the task whose Sender a request carries (-1 when the message has none).
TaskMessage(type, from, st, str) == [type |-> type, from |-> from, status |-> st, str |-> str]
ReadMessageRequest(t) == TaskMessage("ReadMessageRequest", t, StatusOk, "")
ReadMessageResponse(st, n) == TaskMessage("ReadMessageResponse", -1, st, n)
RefreshByName(n) == TaskMessage("RefreshByName", -1, StatusOk, n)
RefreshAll == TaskMessage("RefreshAll", -1, StatusOk, "")
ListClientsRequest(t) == TaskMessage("ListClientsRequest", t, StatusOk, "")
ListClientsResponse(n) == TaskMessage("ListClientsResponse", -1, StatusOk, n)
NoMessage == TaskMessage("None", -1, StatusOk, "")

VARIABLES
    exit_code,         \* None while the process runs, Some(c) after std::process::exit(c)
    log_every_status,  \* Config::log_every_status
    log,               \* the lines printed to stdout
    task_id,           \* main: the id the next accepted connection gets
    locked_data,       \* TaskCommunication::locked_data: the keys of the map
    conn,              \* the client's end of each connection: "none" | "open" | "closed"
    task,              \* each handler task: where it is, its ClientState, its locals
    inbox,             \* each task's mpsc channel of TaskMessage (what is buffered)
    wire,              \* the frames written to each client's socket
    nframes,           \* frames read so far, over all connections
    codec,             \* a ServerCommand on its way through to_bytes and from_bytes
    link,              \* one direction of a connection: the writer, the socket, the reader
    client,            \* the client process: its driver and its action
    watch,             \* a command's output on its way through process_command_output
    cli,               \* the command line on its way through Config::parse
    mutex,             \* the holder of the Mutex of TaskCommunication::locked_data, if any
    ids                \* main's task_id counter, as a usize of the build, and the keys of the registry

vars == <<exit_code, log_every_status, log, task_id, locked_data, conn, task,
          inbox, wire, nframes, codec, link, client, watch, cli, mutex, ids>>

\* the variables of the server
serverVars ==
    <<exit_code, log_every_status, log, task_id, locked_data, conn, task, inbox, wire, nframes>>

\* ------------------------------------------------------------ wire codec
\* bytes of text a frame carries in a run; frames a string vector holds
MaxText == 2
MaxTexts == 2

\* ServerCommand::ID_*
ID_ABORT == 1
ID_SET_STATUS_OK == 2
ID_SET_STATUS_ERROR == 3
ID_GET_STATUSES == 4
ID_REFRESH_CLIENT_BY_NAME == 5
ID_SET_NAME == 6
ID_STATUSES == 7
ID_REFRESH == 8
\* the tags the protocol adds to these eight
ID_REFRESH_ALL_CLIENTS == 9
ID_LIST_CLIENTS == 10
ID_CLIENTS == 11
\* the bytes of a u32
DwordSize == 4

\* A String is its UTF-8 bytes.  The texts of a run are ASCII ("a", "b").
Alphabet == {97, 98}
RECURSIVE TextsOf(_)
TextsOf(n) ==
    IF n = 0 THEN {<<>>}
    ELSE TextsOf(n - 1) \cup {Append(s, b) : s \in TextsOf(n - 1), b \in Alphabet}
RECURSIVE VectorsOf(_, _)
VectorsOf(S, n) ==
    IF n = 0 THEN {<<>>}
    ELSE VectorsOf(S, n - 1) \cup {Append(v, s) : v \in VectorsOf(S, n - 1), s \in S}

\* ServerCommand, as to_bytes and from_bytes see it: the tag and the payload
Command(id, text, flag, texts) == [id |-> id, text |-> text, flag |-> flag, texts |-> texts]
NoCommand == Command(0, <<>>, FALSE, <<>>)
WithString == {ID_SET_STATUS_ERROR, ID_REFRESH_CLIENT_BY_NAME, ID_SET_NAME}
WithoutPayload == {ID_ABORT, ID_SET_STATUS_OK, ID_REFRESH}
ExtendedIds == {ID_REFRESH_ALL_CLIENTS, ID_LIST_CLIENTS, ID_CLIENTS}

\* every frame of the tag table, with representative payloads
Commands ==
    {Command(id, <<>>, FALSE, <<>>) : id \in WithoutPayload \cup {ID_REFRESH_ALL_CLIENTS, ID_LIST_CLIENTS}}
        \cup {Command(id, s, FALSE, <<>>) : id \in WithString, s \in TextsOf(MaxText)}
        \cup {Command(ID_GET_STATUSES, <<>>, b, <<>>) : b \in BOOLEAN}
        \cup {Command(id, <<>>, FALSE, v) : id \in {ID_STATUSES, ID_CLIENTS},
                                            v \in VectorsOf(TextsOf(1), MaxTexts)}

\* usize::to_le_bytes()[0..4]: the low four bytes, least significant first
to_le_bytes(n) ==
    <<n % 256, (n \div 256) % 256, (n \div 65536) % 256, (n \div 16777216) % 256>>

\* u32::from_ne_bytes: the byte order of the target the program is built for
from_ne_bytes(b, big_endian) ==
    IF big_endian
    THEN b[1] * 16777216 + b[2] * 65536 + b[3] * 256 + b[4]
    ELSE b[4] * 16777216 + b[3] * 65536 + b[2] * 256 + b[1]

\* to_bytes: append_string, append_strings, append_bool
append_string(bytes, string) == bytes \o to_le_bytes(Len(string)) \o string
RECURSIVE append_each(_, _)
append_each(bytes, strings) ==
    IF strings = <<>> THEN bytes
    ELSE append_each(append_string(bytes, Head(strings)), Tail(strings))
append_strings(bytes, strings) == append_each(bytes \o to_le_bytes(Len(strings)), strings)
append_bool(bytes, b) == Append(bytes, IF b THEN 1 ELSE 0)

\* the encodings of the tags 9 to 11: no payload, no payload, a string vector
to_bytes_extended(c) ==
    IF c.id = ID_CLIENTS THEN append_strings(<<c.id>>, c.texts) ELSE <<c.id>>

\* ServerCommand::to_bytes
to_bytes(c) ==
    CASE c.id \in WithoutPayload -> <<c.id>>
      [] c.id \in WithString -> append_string(<<c.id>>, c.text)
      [] c.id = ID_GET_STATUSES -> append_bool(<<c.id>>, c.flag)
      [] c.id = ID_STATUSES -> append_strings(<<c.id>>, c.texts)
      [] OTHER -> to_bytes_extended(c)

\* what a closure of from_bytes returns: the error ("None" for Ok), the value
\* and the index it leaves
Taken(error, value, index) == [error |-> error, value |-> value, index |-> index]

\* from_bytes: take_bytes
take_bytes(bytes, index, count) ==
    IF index + count > Len(bytes)
    THEN Taken("TooFewBytes", <<>>, index)
    ELSE Taken("None", SubSeq(bytes, index + 1, index + count), index + count)

\* a take_bool that reads a boolean that is not there as false
take_bool_or_false(bytes, index) ==
    LET b == take_bytes(bytes, index, 1)
    IN  IF b.error # "None" THEN Taken("None", FALSE, index)
        ELSE IF b.value[1] = 0 THEN Taken("None", FALSE, b.index)
        ELSE IF b.value[1] = 1 THEN Taken("None", TRUE, b.index)
        ELSE Taken("InvalidBoolean", FALSE, b.index)

\* from_bytes: take_bool
take_bool(bytes, index) ==
    LET b == take_bytes(bytes, index, 1)
    IN  IF b.error # "None" THEN Taken(b.error, FALSE, index)
        ELSE IF b.value[1] = 0 THEN Taken("None", FALSE, b.index)
        ELSE IF b.value[1] = 1 THEN Taken("None", TRUE, b.index)
        ELSE Taken("InvalidBoolean", FALSE, b.index)

\* from_bytes: take_dword
take_dword(bytes, index, big_endian) ==
    LET b == take_bytes(bytes, index, DwordSize)
    IN  IF b.error # "None" THEN Taken(b.error, 0, index)
        ELSE Taken("None", from_ne_bytes(b.value, big_endian), b.index)

\* String::from_utf8 accepts the bytes: every byte below 128 is a character of
\* its own, and a byte from 128 on is valid only inside a longer sequence,
\* which the texts of a run do not hold
from_utf8(string) == \A i \in 1 .. Len(string) : string[i] < 128

\* from_bytes: take_string
take_string(bytes, index, big_endian) ==
    LET string_size == take_dword(bytes, index, big_endian)
        string == take_bytes(bytes, string_size.index, string_size.value)
    IN  IF string_size.error # "None" THEN Taken(string_size.error, <<>>, index)
        ELSE IF string.error # "None" THEN Taken(string.error, <<>>, string_size.index)
        ELSE IF ~from_utf8(string.value) THEN Taken("InvalidStringEncoding", <<>>, string.index)
        ELSE string

\* from_bytes: take_strings, the loop over 0..strings_size
RECURSIVE take_each(_, _, _, _, _)
take_each(bytes, index, remaining, strings, big_endian) ==
    IF remaining = 0 THEN Taken("None", strings, index)
    ELSE LET s == take_string(bytes, index, big_endian)
         IN  IF s.error # "None" THEN Taken(s.error, <<>>, s.index)
             ELSE take_each(bytes, s.index, remaining - 1, Append(strings, s.value), big_endian)
take_strings(bytes, index, big_endian) ==
    LET strings_size == take_dword(bytes, index, big_endian)
    IN  IF strings_size.error # "None" THEN Taken(strings_size.error, <<>>, index)
        ELSE take_each(bytes, strings_size.index, strings_size.value, <<>>, big_endian)

\* Result<ServerCommandParse, ServerCommandError>: an error carries no command
\* and no bytes_used
ServerCommandParse(error, command, bytes_used) ==
    [error |-> error, command |-> command, bytes_used |-> bytes_used]
Failed(error) == ServerCommandParse(error, NoCommand, 0)

\* the arms of from_bytes for the tags 9 to 11
from_bytes_extended(bytes, id, big_endian) ==
    IF id = ID_CLIENTS
    THEN LET v == take_strings(bytes, 1, big_endian)
         IN  IF v.error # "None" THEN Failed(v.error)
             ELSE ServerCommandParse("None", Command(id, <<>>, FALSE, v.value), v.index)
    ELSE ServerCommandParse("None", Command(id, <<>>, FALSE, <<>>), 1)

\* ServerCommand::from_bytes
from_bytes(bytes, big_endian) ==
    LET command_type == take_bytes(bytes, 0, 1)
        id == command_type.value[1]
        s == take_string(bytes, 1, big_endian)
        b == take_bool(bytes, 1)
        v == take_strings(bytes, 1, big_endian)
    IN  IF command_type.error # "None" THEN Failed(command_type.error)
        ELSE CASE id \in WithoutPayload ->
                      ServerCommandParse("None", Command(id, <<>>, FALSE, <<>>), 1)
               [] id \in WithString ->
                      IF s.error # "None" THEN Failed(s.error)
                      ELSE ServerCommandParse("None", Command(id, s.value, FALSE, <<>>), s.index)
               [] id = ID_GET_STATUSES ->
                      IF b.error # "None" THEN Failed(b.error)
                      ELSE ServerCommandParse("None", Command(id, <<>>, b.value, <<>>), b.index)
               [] id = ID_STATUSES ->
                      IF v.error # "None" THEN Failed(v.error)
                      ELSE ServerCommandParse("None", Command(id, <<>>, FALSE, v.value), v.index)
               [] id \in ExtendedIds -> from_bytes_extended(bytes, id, big_endian)
               [] OTHER -> Failed("UnknownCommand")

\* the codec at work: a command is encoded, the bytes may be cut short, the
\* bytes are decoded
NotParsed == ServerCommandParse("None", NoCommand, 0)
CodecState(pc, big_endian, command) ==
    [pc |-> pc, big_endian |-> big_endian, command |-> command, bytes |-> <<>>,
     parse |-> NotParsed]
CodecIdle == CodecState("idle", FALSE, NoCommand)
\* the commands and the builds of a run
CodecInputs == {CodecState("command", e, c) : e \in BOOLEAN, c \in Commands}

ToBytes ==
    /\ codec.pc = "command"
    /\ codec' = [codec EXCEPT !.pc = "bytes", !.bytes = to_bytes(codec.command)]
    /\ UNCHANGED <<serverVars, link, client, watch, cli, mutex, ids>>

Cut(n) ==
    /\ codec.pc = "bytes"
    /\ n < Len(codec.bytes)
    /\ codec' = [codec EXCEPT !.pc = "cut", !.bytes = SubSeq(@, 1, n)]
    /\ UNCHANGED <<serverVars, link, client, watch, cli, mutex, ids>>

FromBytes ==
    /\ codec.pc \in {"bytes", "cut"}
    /\ codec' = [codec EXCEPT !.pc = IF @ = "bytes" THEN "parsed" ELSE "parsed_cut",
                              !.parse = from_bytes(codec.bytes, codec.big_endian)]
    /\ UNCHANGED <<serverVars, link, client, watch, cli, mutex, ids>>

\* ------------------------------------------------------ framed transport
\* frames the writer enqueues in a run
MaxSend == 2

\* the frames that travel in a run
LinkCommands ==
    {Command(ID_ABORT, <<>>, FALSE, <<>>), Command(ID_SET_NAME, <<97>>, FALSE, <<>>),
     Command(ID_STATUSES, <<>>, FALSE, << <<97>> >>)}

\* One direction of a connection.  The writer's side: queue is the outbound
\* queue, enqueued every frame ever pushed, sent the frames send_async
\* returned Ok for, written every byte the socket accepted, closed that the
\* writer has dropped its end.  In between: socket, the bytes accepted and not
\* yet read.  The reader's side: buffer is what its BufReader holds, received
\* the frames receive_async returned, rx "receive" while it is called again
\* and again, else the error it returned; cancelled counts the futures of
\* receive_async that select! has dropped.
LinkState(big_endian) ==
    [big_endian |-> big_endian, queue |-> <<>>, enqueued |-> <<>>, sent |-> <<>>,
     written |-> <<>>, closed |-> FALSE, socket |-> <<>>, buffer |-> <<>>,
     received |-> <<>>, rx |-> "receive", cancelled |-> 0]
LinkIdle == [LinkState(FALSE) EXCEPT !.closed = TRUE, !.rx = "idle"]
LinkInputs == {LinkState(e) : e \in BOOLEAN}

\* ClientState::push_command_to_send, when the queue has room
Push(c) ==
    /\ ~link.closed
    /\ Len(link.enqueued) < MaxSend
    /\ Len(link.queue) < QueueCapacity
    /\ link' = [link EXCEPT !.queue = Append(@, c), !.enqueued = Append(@, c)]
    /\ UNCHANGED <<serverVars, codec, client, watch, cli, mutex, ids>>

\* send_async: stream.write(&command_bytes[0..]) was given n bytes' worth of
\* room and returned Ok(n); what went into the socket
send_async(command_bytes, n) == SubSeq(command_bytes, 1, n)

\* get_command_to_send and send_async returning Ok: the socket took n bytes
\* (at least one, at most all of them)
SendAsync(n) ==
    /\ ~link.closed
    /\ link.queue # <<>>
    /\ n \in 1 .. Len(to_bytes(Head(link.queue)))
    /\ LET out == send_async(to_bytes(Head(link.queue)), n)
       IN  link' = [link EXCEPT !.queue = Tail(@), !.sent = Append(@, Head(link.queue)),
                                !.written = @ \o out, !.socket = @ \o out]
    /\ UNCHANGED <<serverVars, codec, client, watch, cli, mutex, ids>>

\* send_async returning Err(ClientDisconnected): the loop breaks, the handler
\* ends and drops the queue and its end of the socket
SendAsyncError ==
    /\ ~link.closed
    /\ link.queue # <<>>
    /\ link' = [link EXCEPT !.queue = <<>>, !.closed = TRUE]
    /\ UNCHANGED <<serverVars, codec, client, watch, cli, mutex, ids>>

\* the writer ends for a reason of its own
Close ==
    /\ ~link.closed
    /\ link' = [link EXCEPT !.queue = <<>>, !.closed = TRUE]
    /\ UNCHANGED <<serverVars, codec, client, watch, cli, mutex, ids>>

\* a consume that leaves the last byte of the frame in the buffer
consume_but_one(buffer, amt) == SubSeq(buffer, amt, Len(buffer))

\* BufReader::consume
consume(buffer, amt) == SubSeq(buffer, amt + 1, Len(buffer))

\* One turn of the loop of receive_async.  BufReader::fill_buf reads from the
\* socket only when its buffer is empty (k bytes: what is there, or a part of
\* it, or none at the end of the stream) and waits while nothing is there;
\* with bytes in the buffer it returns them as they are.
ReceiveAsync(k) ==
    /\ link.rx = "receive"
    /\ k \in 0 .. Len(link.socket)
    /\ IF link.buffer # <<>> THEN k = 0
       ELSE IF link.socket # <<>> THEN k > 0
       ELSE link.closed
    /\ LET buffer == link.buffer \o SubSeq(link.socket, 1, k)
           rest == SubSeq(link.socket, k + 1, Len(link.socket))
           parse == from_bytes(buffer, link.big_endian)
       IN  link' =
             IF Len(buffer) = 0
             THEN [link EXCEPT !.rx = "ClientDisconnected"]
             ELSE IF parse.error = "None"
             THEN [link EXCEPT !.socket = rest,
                               !.buffer = consume(buffer, parse.bytes_used),
                               !.received = Append(@, parse.command)]
             ELSE IF parse.error = "TooFewBytes"
             THEN [link EXCEPT !.socket = rest, !.buffer = buffer]
             ELSE [link EXCEPT !.socket = rest, !.buffer = buffer, !.rx = parse.error]
    /\ UNCHANGED <<serverVars, codec, client, watch, cli, mutex, ids>>

\* futures of receive_async that select! drops in a run
MaxCancels == 2

\* a future of receive_async that takes the bytes of the BufReader along when
\* it is dropped
drop_receive_with_buffer(buffer) == <<>>

\* the BufReader's buffer after the future of receive_async is dropped: the
\* future borrows the stream (input_stream: &mut T) and owns no bytes, what
\* fill_buf has read stays in the BufReader
drop_receive(buffer) == buffer

\* select! takes another branch: the future of receive_async is dropped,
\* polled or not, and the next turn of the loop makes a new one
CancelReceive ==
    /\ link.rx = "receive"
    /\ link.cancelled < MaxCancels
    /\ link' = [link EXCEPT !.buffer = drop_receive(@), !.cancelled = @ + 1]
    /\ UNCHANGED <<serverVars, codec, client, watch, cli, mutex, ids>>

\* --------------------------------------------------------- client process
\* failed connection attempts, triggers of the watcher in a run
MaxAttempts == 3
MaxTriggers == 2

\* Action (the variants that talk to the server; "read" and "abort" stand for
\* the actions that are not WatchCommand)
Actions == {"watch", "read", "abort"}
\* Action::should_reconnect
should_reconnect(action) == action = "watch"

\* The client process.  Its Config: action, client_name, connection_attempts.
\* pc is where main is:
\*   "connect"   in connect_to_server
\*   "set_name"  in Action::execute, before the action
\*   "request"   in the action that is not a watch, before its frame is sent
\*   "reply"     in Action::read, awaiting receive_async
\*   "delay"     in Action::watch, in sleep(data.delay)
\*   "do_watch"  in do_watch
\*   "select"    in tokio::select! of Action::watch
\*   "exited"    the process has ended with exit_code
\* server is what the client's address leads to: "down" (nothing listens),
\* "up" (a server listens or holds the connection), "closed" (the server has
\* dropped the connection).  failed counts the failed attempts in a row,
\* triggers the triggers the watcher took, refreshes the Refresh frames that
\* wait in the socket, statuses the status frames send_async returned Ok for,
\* out every byte the socket accepted, error the error the action returned.
ClientProcess(action, name, attempts, server) ==
    [pc |-> "connect", action |-> action, client_name |-> name,
     connection_attempts |-> attempts, server |-> server, failed |-> 0,
     triggers |-> 0, refreshes |-> 0, statuses |-> <<>>, out |-> <<>>,
     error |-> "None", exit_code |-> None]
ClientIdle == [ClientProcess("abort", None, 0, "down") EXCEPT !.pc = "idle"]
ClientInputs ==
    {ClientProcess(a, n, k, s) : a \in Actions, n \in {None, Some(<<97>>)},
                                 k \in 0 .. (MaxAttempts - 1), s \in {"down", "up"}}

\* the status frames a command's output makes
StatusCommands ==
    {Command(ID_SET_STATUS_OK, <<>>, FALSE, <<>>), Command(ID_SET_STATUS_ERROR, <<97>>, FALSE, <<>>)}

\* main: the action returned Err, println!("ERROR: ..") and std::process::exit(1)
exit_with(r, error) == [r EXCEPT !.pc = "exited", !.error = error, !.exit_code = Some(1)]
\* main: the action returned Ok, main returns
exit_ok(r) == [r EXCEPT !.pc = "exited", !.exit_code = Some(0)]

\* a server starts or stops listening while the client connects
ServerStarts ==
    /\ client.pc = "connect" /\ client.server = "down"
    /\ client' = [client EXCEPT !.server = "up"]
    /\ UNCHANGED <<serverVars, codec, link, watch, cli, mutex, ids>>

\* the server ends or drops the connection
ServerCloses ==
    /\ client.pc \notin {"connect", "exited", "idle"} /\ client.server = "up"
    /\ client' = [client EXCEPT !.server = "closed"]
    /\ UNCHANGED <<serverVars, codec, link, watch, cli, mutex, ids>>

\* the server writes a Refresh frame to the connection
ServerRefreshes ==
    /\ client.pc \in {"delay", "do_watch", "select"} /\ client.server = "up"
    /\ client.refreshes + client.triggers < MaxTriggers
    /\ client' = [client EXCEPT !.refreshes = @ + 1]
    /\ UNCHANGED <<serverVars, codec, link, watch, cli, mutex, ids>>

\* connect_to_server: TcpStream::connect fails, the message, the sleep, continue
ConnectFailed ==
    /\ client.pc = "connect" /\ client.server = "down"
    /\ client.failed < MaxAttempts
    /\ client' = [client EXCEPT !.failed = @ + 1]
    /\ UNCHANGED <<serverVars, codec, link, watch, cli, mutex, ids>>

\* connect_to_server: TcpStream::connect succeeds; main goes on to the action
Connected ==
    /\ client.pc = "connect" /\ client.server = "up"
    /\ client' = [client EXCEPT !.pc = "set_name", !.failed = 0]
    /\ UNCHANGED <<serverVars, codec, link, watch, cli, mutex, ids>>

\* a write on the connection: Ok with n bytes taken, or (ok false) an error,
\* which only a connection the server has dropped gives
CanWrite(command, n, ok) ==
    IF ok THEN n \in 1 .. Len(to_bytes(command)) ELSE n = 0 /\ client.server = "closed"

\* Action::execute: SetName is sent when the client has a name; then the action
SetClientName(n, ok) ==
    /\ client.pc = "set_name"
    /\ LET command == Command(ID_SET_NAME, IF client.client_name = None THEN <<>> ELSE client.client_name[1], FALSE, <<>>)
           next == IF client.action = "watch" THEN "delay" ELSE "request"
       IN  IF client.client_name = None
           THEN n = 0 /\ ok /\ client' = [client EXCEPT !.pc = next]
           ELSE /\ CanWrite(command, n, ok)
                /\ client' = IF ok
                             THEN [client EXCEPT !.pc = next, !.out = @ \o send_async(to_bytes(command), n)]
                             ELSE exit_with(client, "ClientDisconnected")
    /\ UNCHANGED <<serverVars, codec, link, watch, cli, mutex, ids>>

\* Action::abort (and the refreshes): one frame is sent, the action returns;
\* Action::read: GetStatuses is sent and the reply awaited
Request(n, ok) ==
    /\ client.pc = "request"
    /\ LET command == IF client.action = "read" THEN Command(ID_GET_STATUSES, <<>>, FALSE, <<>>)
                      ELSE Command(ID_ABORT, <<>>, FALSE, <<>>)
       IN  /\ CanWrite(command, n, ok)
           /\ client' = IF ~ok THEN exit_with(client, "ClientDisconnected")
                        ELSE IF client.action = "read"
                        THEN [client EXCEPT !.pc = "reply", !.out = @ \o send_async(to_bytes(command), n)]
                        ELSE exit_ok([client EXCEPT !.out = @ \o send_async(to_bytes(command), n)])
    /\ UNCHANGED <<serverVars, codec, link, watch, cli, mutex, ids>>

\* Action::read: receive_async returns the Statuses frame, or the end of the
\* stream once the server has dropped the connection
Reply ==
    /\ client.pc = "reply"
    /\ client' = IF client.server = "closed" THEN exit_with(client, "ClientDisconnected")
                 ELSE exit_ok(client)
    /\ UNCHANGED <<serverVars, codec, link, watch, cli, mutex, ids>>

\* Action::watch: sleep(data.delay) is over
Delay ==
    /\ client.pc = "delay"
    /\ client' = [client EXCEPT !.pc = "do_watch"]
    /\ UNCHANGED <<serverVars, codec, link, watch, cli, mutex, ids>>

\* do_watch: the command runs, its output makes the status frame, send_async
DoWatch(command, n, ok) ==
    /\ client.pc = "do_watch"
    /\ command \in StatusCommands
    /\ CanWrite(command, n, ok)
    /\ client' = IF ok
                 THEN [client EXCEPT !.pc = "select", !.statuses = Append(@, command),
                                     !.out = @ \o send_async(to_bytes(command), n)]
                 ELSE exit_with(client, "ClientDisconnected")
    /\ UNCHANGED <<serverVars, codec, link, watch, cli, mutex, ids>>

\* select! of Action::watch: sleep(data.interval) is over
IntervalExpires ==
    /\ client.pc = "select"
    /\ client.triggers < MaxTriggers
    /\ client' = [client EXCEPT !.pc = "do_watch", !.triggers = @ + 1]
    /\ UNCHANGED <<serverVars, codec, link, watch, cli, mutex, ids>>

\* select! of Action::watch: receive_async returns a Refresh frame
ReceiveRefresh ==
    /\ client.pc = "select"
    /\ client.refreshes > 0
    /\ client.triggers < MaxTriggers
    /\ client' = [client EXCEPT !.pc = "do_watch", !.triggers = @ + 1, !.refreshes = @ - 1]
    /\ UNCHANGED <<serverVars, codec, link, watch, cli, mutex, ids>>

\* select! of Action::watch: receive_async returns ClientDisconnected (the
\* stream has ended), `?` returns it from the action
ReceiveEnd ==
    /\ client.pc = "select"
    /\ client.refreshes = 0 /\ client.server = "closed"
    /\ client' = exit_with(client, "ClientDisconnected")
    /\ UNCHANGED <<serverVars, codec, link, watch, cli, mutex, ids>>

\* ------------------------------------------------------- command output
\* characters of stdout in a run; the largest exit code of a run
MaxStdout == 4
MaxExitCode == 10

\* the characters stdout is made of: a, b, space, line feed
Letters == {97, 98}
Space == 32
LineFeed == 10
Minus == 45
Zero == 48
StdoutAlphabet == Letters \cup {Space, LineFeed}
RECURSIVE StdoutsOf(_)
StdoutsOf(n) ==
    IF n = 0 THEN {<<>>}
    ELSE StdoutsOf(n - 1) \cup {Append(s, c) : s \in {x \in StdoutsOf(n - 1) : Len(x) = n - 1},
                                               c \in StdoutAlphabet}

\* WatchMode
WatchModes == {"OneLineError", "MultiLineError", "ExitCode", "OneLineErrorExitCode"}

\* ExecuteCommandOutput
ExecuteCommandOutput(executed, status, text) ==
    [executed |-> executed, status |-> status, text |-> text]

\* Result<(), String>: Ok(()) and Err(prefix + text), the message kept as
\* the literal of the format string and the text put after it
Ok == [ok |-> TRUE, prefix |-> "", text |-> <<>>]
Err(prefix, text) == [ok |-> FALSE, prefix |-> prefix, text |-> text]

\* char::is_whitespace, for the characters of the alphabet
is_whitespace(c) == c \in {Space, LineFeed}

\* str::trim_start (kept apart from trim_end: trim is both)
RECURSIVE trim_start(_)
trim_start(s) ==
    IF s # <<>> /\ is_whitespace(Head(s)) THEN trim_start(Tail(s)) ELSE s
RECURSIVE trim_end(_)
trim_end(s) ==
    IF s # <<>> /\ is_whitespace(s[Len(s)]) THEN trim_end(SubSeq(s, 1, Len(s) - 1)) ELSE s
\* str::trim
trim(s) == trim_end(trim_start(s))

\* str::lines: the text split at every line feed, the line feeds left out;
\* a line feed at the very end starts no further line
RECURSIVE lines(_)
lines(s) ==
    IF s = <<>> THEN <<>>
    ELSE LET at == {i \in 1 .. Len(s) : s[i] = LineFeed}
         IN  IF at = {} THEN <<s>>
             ELSE LET i == CHOOSE k \in at : \A j \in at : k <= j
                  IN  <<SubSeq(s, 1, i - 1)>> \o lines(SubSeq(s, i + 1, Len(s)))

\* [String]::join
RECURSIVE join(_, _)
join(ls, sep) ==
    IF ls = <<>> THEN <<>>
    ELSE IF Len(ls) = 1 THEN Head(ls)
    ELSE Head(ls) \o sep \o join(Tail(ls), sep)

\* i32 as Display prints it: the decimal digits, a minus sign before them
RECURSIVE digits(_)
digits(n) == IF n < 10 THEN <<Zero + n>> ELSE Append(digits(n \div 10), Zero + (n % 10))
display(code) == IF code < 0 THEN <<Minus>> \o digits(0 - code) ELSE digits(code)

\* Iterator::filter(|line| !line.trim().is_empty())
RECURSIVE filter_non_empty(_)
filter_non_empty(ls) ==
    IF ls = <<>> THEN <<>>
    ELSE IF trim(Head(ls)) # <<>> THEN <<Head(ls)>> \o filter_non_empty(Tail(ls))
    ELSE filter_non_empty(Tail(ls))

\* Iterator::map(|line| line.trim())
map_trim(ls) == [i \in 1 .. Len(ls) |-> trim(ls[i])]

\* process_one_line_error of process_command_output, taking the second
\* non-empty line when there is one in the place of the first
process_nth_line_error(text) ==
    LET non_empty == filter_non_empty(lines(text))
    IN  IF Len(non_empty) >= 2 THEN Err("", trim(non_empty[2]))
        ELSE IF non_empty # <<>> THEN Err("", trim(non_empty[1]))
        ELSE Ok

\* process_one_line_error of process_command_output
process_one_line_error(text) ==
    LET non_empty == filter_non_empty(lines(text))
    IN  IF non_empty # <<>> THEN Err("", trim(non_empty[1])) ELSE Ok

\* process_multi_line_error of process_command_output
process_multi_line_error(text) ==
    LET non_empty == map_trim(filter_non_empty(lines(text)))
    IN  IF non_empty = <<>> THEN Ok ELSE Err("", join(non_empty, <<LineFeed>>))

\* process_exit_code of process_command_output, with `code <= 0` in the
\* place of `code == 0`
process_exit_code_signed(code) ==
    IF code <= 0 THEN Ok ELSE Err("Exit code was ", display(code))

\* process_exit_code of process_command_output
process_exit_code(code) ==
    IF code = 0 THEN Ok ELSE Err("Exit code was ", display(code))

\* the match of process_command_output over the watch mode
process_executed_output(output, mode) ==
    CASE mode = "OneLineError" -> process_one_line_error(output.text)
      [] mode = "MultiLineError" -> process_multi_line_error(output.text)
      [] mode = "ExitCode" ->
            IF output.status = None THEN Err("Exit code is not available", <<>>)
            ELSE process_exit_code(output.status[1])
      [] mode = "OneLineErrorExitCode" ->
            IF output.status = None THEN Err("Exit code is not available", <<>>)
            ELSE IF output.status[1] # 0 THEN process_one_line_error(output.text)
            ELSE process_exit_code(output.status[1])

\* Action::process_command_output, without its check of output.executed
process_command_output_unchecked(output, mode) ==
    process_executed_output(output, mode)

\* Action::process_command_output
process_command_output(output, mode) ==
    IF ~output.executed
    THEN Err("Command was not executed. ", output.text)
    ELSE process_executed_output(output, mode)

\* A command's output and what process_command_output makes of it.  pc is
\* "idle" (nothing to process), "output" (execute_command has returned) or
\* "result" (process_command_output has returned).
WatchState(output, mode) == [pc |-> "output", output |-> output, mode |-> mode, result |-> Ok]
WatchIdle == [WatchState(ExecuteCommandOutput(FALSE, None, <<>>), "OneLineError") EXCEPT !.pc = "idle"]
ExitCodes == {0 - 1, 0, 1, MaxExitCode}
WatchInputs ==
    {WatchState(ExecuteCommandOutput(e, s, t), m) :
        e \in BOOLEAN, s \in {None} \cup {Some(c) : c \in ExitCodes},
        t \in StdoutsOf(MaxStdout), m \in WatchModes}

\* do_watch: Self::process_command_output(command_output, &data.mode)
ProcessCommandOutput ==
    /\ watch.pc = "output"
    /\ watch' = [watch EXCEPT !.pc = "result",
                              !.result = process_command_output(watch.output, watch.mode)]
    /\ UNCHANGED <<serverVars, codec, link, client, cli, mutex, ids>>

\* --------------------------------------------------------- command line
\* arguments after the action and its own arguments, in a run
MaxExtraArgs == 3

\* the options of parse_extra_args, and what else stands on a command line:
\* the separator, a value that parses as a number and as a boolean, a value
\* that parses as neither
OptionTokens == {"-p", "-n", "-i", "-w", "-d", "-c", "-r", "-m", "-s"}
ExtraTokens == OptionTokens \cup {"--", "1", "x"}
RECURSIVE ArgsOf(_)
ArgsOf(n) ==
    IF n = 0 THEN {<<>>}
    ELSE ArgsOf(n - 1) \cup {Append(s, a) : s \in {x \in ArgsOf(n - 1) : Len(x) = n - 1},
                                            a \in ExtraTokens}

\* how a command line begins: an action (or none, or no such action) and
\* the arguments parse_action takes with it
ActionHeads ==
    {<<>>, <<"x">>, <<"read">>, <<"watch">>, <<"watch", "x">>, <<"watch", "x", "--">>,
     <<"refresh">>, <<"refresh", "x">>, <<"refresh_all">>, <<"list">>, <<"abort">>,
     <<"help">>, <<"-h">>, <<"version">>, <<"-v">>}

\* CommandLineError
NoError == [kind |-> "None", name |-> "", value |-> ""]
NoValueSpecified(name, option) == [kind |-> "NoValueSpecified", name |-> name, value |-> option]
InvalidValue(name, value) == [kind |-> "InvalidValue", name |-> name, value |-> value]
InvalidArgument(arg) == [kind |-> "InvalidArgument", name |-> "", value |-> arg]

\* str::parse::<u16>, <u32>, <u64>, for the values of a run
parse_number(value) == IF value = "1" THEN Some(1) ELSE None
\* fetch_arg_bool: the match over the value
parse_bool(value) ==
    CASE value \in {"0", "false"} -> Some(FALSE)
      [] value \in {"1", "true"} -> Some(TRUE)
      [] OTHER -> None
\* WatchMode::from_str
parse_mode(value) ==
    CASE value = "onelineerror" -> Some("OneLineError")
      [] value = "multilineerror" -> Some("MultiLineError")
      [] value = "exitcode" -> Some("ExitCode")
      [] value = "onelineerrorexitcode" -> Some("OneLineErrorExitCode")
      [] OTHER -> None
\* fetch_arg_string: a value that is not the empty string
parse_string(value) == IF value = "" THEN None ELSE Some(value)

\* Config::parse at work.  pc is "idle" (no command line), "action" (before
\* parse_action), "extra" (in the loop of parse_extra_args) or "done" (parse
\* has returned: Err(error), or Ok(config) when error is NoError).  args is
\* what the iterator still holds.  A field of the Config or of the action
\* that holds None has the default of Config::default, WatchCommandData::new
\* or parse_action.
CliState(args) ==
    [pc |-> "action", args |-> args, error |-> NoError, action |-> "None",
     include_names |-> None, command |-> None, command_args |-> <<>>, name |-> None,
     interval |-> None, delay |-> None, mode |-> None, shell |-> None,
     server_port |-> None, client_name |-> None, server_connection_backoff |-> None,
     server_connection_attempts |-> None]
CliIdle == [CliState(<<>>) EXCEPT !.pc = "idle"]
CliInputs == {CliState(h \o a) : h \in ActionHeads, a \in ArgsOf(MaxExtraArgs)}

\* `return Err(..)` and `?` in Config::parse
fail(r, error) == [r EXCEPT !.pc = "done", !.error = error]

\* parse_action: for arg in args.by_ref() { if arg != "--" { push } else { break } }
RECURSIVE command_args(_)
command_args(args) ==
    IF args = <<>> \/ Head(args) = "--" THEN <<>> ELSE <<Head(args)>> \o command_args(Tail(args))
after_command_args(args) ==
    LET taken == Len(command_args(args))
    IN  IF taken = Len(args) THEN <<>> ELSE SubSeq(args, taken + 2, Len(args))

\* Config::parse_action, and the check of Config::parse that keeps help and
\* version away from parse_extra_args
parse_action(r) ==
    IF r.args = <<>> THEN fail(r, NoValueSpecified("action", "binary name"))
    ELSE LET action == Head(r.args)
             args == Tail(r.args)
             extra(kind, rest) == [r EXCEPT !.pc = "extra", !.action = kind, !.args = rest]
         IN  CASE action = "read" -> extra("ReadMessages", args)
               [] action = "watch" ->
                     IF args = <<>> THEN fail(r, NoValueSpecified("command to run", action))
                     ELSE [extra("WatchCommand", after_command_args(Tail(args)))
                               EXCEPT !.command = Some(Head(args)),
                                      !.command_args = command_args(Tail(args))]
               [] action = "refresh" ->
                     IF args = <<>> THEN fail(r, NoValueSpecified("client name", action))
                     ELSE [extra("RefreshClientByName", Tail(args)) EXCEPT !.name = Some(Head(args))]
               [] action = "refresh_all" -> extra("RefreshAllClients", args)
               [] action = "list" -> extra("ListClients", args)
               [] action = "abort" -> extra("Abort", args)
               [] action \in {"help", "-h"} -> [extra("Help", args) EXCEPT !.pc = "done"]
               [] action \in {"version", "-v"} -> [extra("Version", args) EXCEPT !.pc = "done"]
               [] OTHER -> fail(r, InvalidValue("action", action))

\* The parse step of the three fetch functions: arg.parse::<Int>() in
\* fetch_arg_and_parse, the match of fetch_arg_bool, WatchMode::from_str through
\* fetch_arg_and_parse, the emptiness test of fetch_arg_string
parse_as(kind, arg) ==
    CASE kind = "number" -> parse_number(arg)
      [] kind = "bool" -> parse_bool(arg)
      [] kind = "mode" -> parse_mode(arg)
      [] kind = "string" -> parse_string(arg)

\* fetch_arg_and_parse, fetch_arg_bool, fetch_arg_string: the value after the
\* option goes through parse and into the field, or the error is returned
fetch_arg_into(r, field, kind, name, empty_is_missing) ==
    LET option == Head(r.args)
        rest == Tail(r.args)
        parse(arg) == parse_as(kind, arg)
    IN  IF rest = <<>> THEN fail(r, NoValueSpecified(name, option))
        ELSE IF parse(Head(rest)) = None
             THEN fail(r, IF empty_is_missing THEN NoValueSpecified(name, option)
                          ELSE InvalidValue(name, Head(rest)))
        ELSE [r EXCEPT ![field] = parse(Head(rest)), !.args = Tail(rest)]

\* match self.action { Action::WatchCommand(ref mut data) => data, .. }, with
\* Action::ReadMessages let through as well
is_watch_or_read(r) == r.action \in {"WatchCommand", "ReadMessages"}

\* match self.action { Action::WatchCommand(ref mut data) => data, .. }
is_watch(r) == r.action = "WatchCommand"
\* match self.action { Action::ReadMessages(ref mut include_names) => .. }
is_read(r) == r.action = "ReadMessages"

\* one turn of the loop of Config::parse_extra_args, for the argument arg
parse_extra_arg(r) ==
    LET arg == Head(r.args)
    IN  CASE arg = "-p" -> fetch_arg_into(r, "server_port", "number", "port", FALSE)
          [] arg = "-n" -> fetch_arg_into(r, "client_name", "string", "client name", TRUE)
          [] arg = "-i" ->
                IF ~is_read(r) THEN fail(r, InvalidArgument(arg))
                ELSE fetch_arg_into(r, "include_names", "bool", "a boolean value", FALSE)
          [] arg = "-w" ->
                IF ~is_watch(r) THEN fail(r, InvalidArgument(arg))
                ELSE fetch_arg_into(r, "interval", "number", "watch interval", FALSE)
          [] arg = "-d" ->
                IF ~is_watch(r) THEN fail(r, InvalidArgument(arg))
                ELSE fetch_arg_into(r, "delay", "number", "initial delay", FALSE)
          [] arg = "-c" ->
                fetch_arg_into(r, "server_connection_backoff", "number",
                               "connection backoff", FALSE)
          [] arg = "-r" ->
                fetch_arg_into(r, "server_connection_attempts", "number",
                               "number of connection attempts", FALSE)
          [] arg = "-m" ->
                IF ~is_watch(r) THEN fail(r, InvalidArgument(arg))
                ELSE fetch_arg_into(r, "mode", "mode", "watch mode", FALSE)
          [] arg = "-s" ->
                IF ~is_watch(r) THEN fail(r, InvalidArgument(arg))
                ELSE fetch_arg_into(r, "shell", "bool", "a boolean value", FALSE)
          [] OTHER -> fail(r, InvalidArgument(arg))

\* Config::parse: Config::parse_action(&mut args)?
ParseAction ==
    /\ cli.pc = "action"
    /\ cli' = parse_action(cli)
    /\ UNCHANGED <<serverVars, codec, link, client, watch, mutex, ids>>

\* Config::parse_extra_args: while let Some(arg) = args.next() { match arg .. }
ParseExtraArg ==
    /\ cli.pc = "extra"
    /\ cli.args # <<>>
    /\ cli' = parse_extra_arg(cli)
    /\ UNCHANGED <<serverVars, codec, link, client, watch, mutex, ids>>

\* Config::parse_extra_args: args.next() is None, Ok(())
ParseEnd ==
    /\ cli.pc = "extra"
    /\ cli.args = <<>>
    /\ cli' = [cli EXCEPT !.pc = "done"]
    /\ UNCHANGED <<serverVars, codec, link, client, watch, mutex, ids>>

\* ------------------------------------------------------------ task ids
\* main's counter `let mut task_id: usize = 0`, with the width usize has on
\* the target and the overflow behaviour of the build.  A usize is written
\* as its 16-bit limbs, the most significant first.

\* connections the listener accepts in a run of the counter
MaxAccepts == 3

Limb == 2 ^ 16
\* target_pointer_width
PointerWidths == {32, 64}
usize_zero(w) == [i \in 1 .. (w \div 16) |-> 0]
\* usize::MAX
usize_max(w) == [i \in 1 .. (w \div 16) |-> Limb - 1]
\* a < b
usize_less(a, b) ==
    \E i \in 1 .. Len(a) : a[i] < b[i] /\ \A j \in 1 .. (i - 1) : a[j] = b[j]

\* a + 1 in wrapping arithmetic: usize::MAX + 1 is 0
RECURSIVE wrapping_add_one(_)
wrapping_add_one(a) ==
    IF a = <<>> THEN <<>>
    ELSE IF a[Len(a)] < Limb - 1 THEN [a EXCEPT ![Len(a)] = @ + 1]
    ELSE Append(wrapping_add_one(SubSeq(a, 1, Len(a) - 1)), 0)

\* task_id += 1: with overflow checks (the dev profile) usize::MAX + 1
\* panics, without them (the release profile) it wraps
add_one(a, overflow_checks) ==
    IF overflow_checks /\ \A i \in 1 .. Len(a) : a[i] = Limb - 1
    THEN [panic |-> TRUE, value |-> a]
    ELSE [panic |-> FALSE, value |-> wrapping_add_one(a)]

\* main and the registry, as far as task ids go: the build, the counter,
\* the value the counter had when the run began (every smaller id has been
\* given out before), the ids given out in the run, the keys of the
\* registry, and whether a register_task replaced an entry
IdState(w, overflow_checks, start, registry) ==
    [pc |-> "accept", width |-> w, overflow_checks |-> overflow_checks,
     task_id |-> start, first |-> start, assigned |-> <<>>, registry |-> registry,
     overwritten |-> FALSE]
IdIdle == [IdState(32, FALSE, usize_zero(32), {}) EXCEPT !.pc = "idle"]

\* the server as it starts, and the server two connections before its
\* counter reaches usize::MAX, all its handlers gone or the first still there
IdInputs ==
    {IdState(w, c, usize_zero(w), {}) : w \in PointerWidths, c \in BOOLEAN}
        \cup UNION {{IdState(w, c, [usize_max(w) EXCEPT ![w \div 16] = @ - 1], r) :
                         r \in {{}, {usize_zero(w)}}, c \in BOOLEAN} : w \in PointerWidths}

\* main: accept, spawn(handle_client_async(task_id, ..)), task_id += 1; the
\* spawned task registers under its id (data.insert replaces an entry that
\* has the same key)
AcceptId ==
    /\ ids.pc = "accept"
    /\ Len(ids.assigned) < MaxAccepts
    /\ LET next == add_one(ids.task_id, ids.overflow_checks)
       IN  ids' = [ids EXCEPT !.assigned = Append(@, ids.task_id),
                              !.overwritten = @ \/ ids.task_id \in ids.registry,
                              !.registry = @ \cup {ids.task_id},
                              !.task_id = next.value,
                              !.pc = IF next.panic THEN "panicked" ELSE "accept"]
    /\ UNCHANGED <<serverVars, codec, link, client, watch, cli, mutex>>

\* a handler ends: unregister_task removes the entry of its id
UnregisterId(id) ==
    /\ ids.pc # "idle"
    /\ id \in ids.registry
    /\ ids' = [ids EXCEPT !.registry = @ \ {id}]
    /\ UNCHANGED <<serverVars, codec, link, client, watch, cli, mutex>>

\* ------------------------------------------------------- handler tasks

NoTask == 0 - 1

\* A handler task.  pc is where it is suspended:
\*   "free"       not spawned yet
\*   "select"     in tokio::select! of the main loop
\*   "broadcast"  in TaskCommunication::broadcast
\*   "collect"    in TaskCommunication::collect, awaiting receiver.recv()
\*   "unicast"    in TaskCommunication::unicast, awaiting sender.send()
\*   "push"       in ClientState::push_command_to_send, awaiting room in its own queue
\*   "ended"      returned from handle_client_async
\*   "panicked"   unwound by a panic
\* name, status, outbound are the ClientState; data, todo, sending, message,
\* result, include_names are the locals of the operation in progress.
TaskState(p) ==
    [pc |-> p, name |-> None, status |-> StatusOk, outbound |-> <<>>,
     data |-> {}, todo |-> {}, sending |-> NoTask, message |-> NoMessage,
     result |-> <<>>, include_names |-> FALSE]

\* a return that clears the status of the ClientState along with the locals
returned_with_status_cleared(r) ==
    [r EXCEPT !.pc = "select", !.data = {}, !.todo = {}, !.sending = NoTask,
              !.message = NoMessage, !.result = <<>>, !.include_names = FALSE,
              !.status = StatusOk]

\* the locals of an operation, cleared when it returns
Returned(r) ==
    [r EXCEPT !.pc = "select", !.data = {}, !.todo = {}, !.sending = NoTask,
              !.message = NoMessage, !.result = <<>>, !.include_names = FALSE]

Dead == {"ended", "panicked"}
\* the Receiver of t's inbox has been dropped: a send to it fails
Closed(t) == task[t].pc \in Dead
HasRoom(ib, t) == Len(ib[t]) < InboxCapacity

\* a get_name_for_logging that gives a client without a name the empty name
get_name_for_logging_empty(r) == IF r.name = None THEN "" ELSE r.name[1]

\* ClientState::get_name_for_logging (get_name_or_default in task_communication.rs)
get_name_for_logging(r) == IF r.name = None THEN "<Unknown>" ELSE r.name[1]

\* ClientState::push_command_to_send: with room the frame is queued and the
\* caller goes back to the loop; without room the task awaits room in a queue
\* that only its own loop drains.
push_command_to_send(r, frame) ==
    IF Len(r.outbound) < QueueCapacity
    THEN [Returned(r) EXCEPT !.outbound = Append(@, frame)]
    ELSE [Returned(r) EXCEPT !.pc = "push"]

\* read_messages: the filter_map over the collected messages
IsError(m) == m.status # StatusOk
StatusString(m, include) ==
    IF include THEN m.str \o ": " \o m.status[1] ELSE m.status[1]
read_messages_result(res, include) ==
    LET errs == SelectSeq(res, IsError)
    IN  [i \in 1 .. Len(errs) |-> StatusString(errs[i], include)]
Unexpected(res) == \E i \in 1 .. Len(res) : res[i].type # "ReadMessageResponse"

\* read_messages after collect has returned: the panic of the filter_map on a
\* message that is no response, else Statuses(errors) pushed to the queue
read_messages_return(r) ==
    IF Unexpected(r.result)
    THEN TaskState("panicked")
    ELSE push_command_to_send(r, Statuses(read_messages_result(r.result, r.include_names)))

\* a filter_map of list_clients that leaves out the peers without a name
list_clients_named(res) ==
    LET named == SelectSeq(res, LAMBDA m : m.str # "<Unknown>")
    IN  [i \in 1 .. Len(named) |-> named[i].str]

\* list_clients: the filter_map over the collected messages
list_clients_result(res) == [i \in 1 .. Len(res) |-> res[i].str]
UnexpectedInList(res) == \E i \in 1 .. Len(res) : res[i].type # "ListClientsResponse"

\* what the handler does with the names list_clients returns: its own name is
\* added and the Clients frame is pushed to the queue (the arm of
\* execute_command_from_client is not in main.rs as given)
list_clients_reply(r, names) ==
    push_command_to_send(r, Clients(Append(names, get_name_for_logging(r))))

\* list_clients after collect has returned: the panic of the filter_map on a
\* message that is no response, else the names go to the handler
list_clients_return(r) ==
    IF UnexpectedInList(r.result)
    THEN TaskState("panicked")
    ELSE list_clients_reply(r, list_clients_result(r.result))

\* a tasks_count that counts the task's own entry of the snapshot as well
tasks_count_with_self(t, r) == Cardinality(r.data)

\* collect: tasks_count, the entries of the snapshot other than the task's own
tasks_count(t, r) == Cardinality(r.data \ {t})

\* collect, entered or after a recv: done once tasks_count messages are in
collect(t, r) ==
    IF Len(r.result) >= tasks_count(t, r)
    THEN IF r.message.type = "ListClientsRequest"
         THEN list_clients_return(r)
         ELSE read_messages_return(r)
    ELSE [r EXCEPT !.pc = "collect"]

\* broadcast, entered or after a send: done once every peer was sent to; then
\* read_messages and list_clients go on to collect and the refresh operations
\* return
broadcast(t, r) ==
    IF r.todo # {}
    THEN [r EXCEPT !.pc = "broadcast"]
    ELSE IF r.message.type \in {"ReadMessageRequest", "ListClientsRequest"}
         THEN collect(t, r)
         ELSE Returned(r)

\* get_locked_data_snapshot, then the broadcast of msg begins
snapshot_and_broadcast(t, r, msg, include) ==
    broadcast(t, [r EXCEPT !.data = locked_data, !.todo = locked_data \ {t},
                           !.message = msg, !.include_names = include])

\* What a step of task t leaves: its new state r and the inboxes ib.  A task
\* that ended or panicked drops its Receiver (what is buffered is lost) and
\* its halves of the TcpStream.
Commit(t, r, ib) ==
    /\ task' = [task EXCEPT ![t] = r]
    /\ inbox' = IF r.pc \in Dead THEN [ib EXCEPT ![t] = <<>>] ELSE ib
    /\ conn' = IF r.pc \in Dead THEN [conn EXCEPT ![t] = "closed"] ELSE conn

\* an Abort that would end only the handler that took it: the others run on
RunningAfterAbort == TRUE

Running == exit_code = None

Init ==
    /\ exit_code = None
    /\ log_every_status \in BOOLEAN
    /\ log = <<>>
    /\ task_id = 0
    /\ locked_data = {}
    /\ conn = [t \in Tasks |-> "none"]
    /\ task = [t \in Tasks |-> TaskState("free")]
    /\ inbox = [t \in Tasks |-> <<>>]
    /\ wire = [t \in Tasks |-> <<>>]
    /\ nframes = 0
    /\ codec = CodecIdle
    /\ link = LinkIdle
    /\ client = ClientIdle
    /\ ids = IdIdle
    /\ mutex = NoTask
    /\ cli = CliIdle
    /\ watch = WatchIdle

\* main: listener.accept(), tokio::spawn(handle_client_async(task_id, ..)),
\* task_id += 1; the spawned task creates its channel and registers.
Accept ==
    /\ Running
    /\ task_id \in Tasks
    /\ task' = [task EXCEPT ![task_id] = TaskState("select")]
    /\ locked_data' = locked_data \cup {task_id}
    /\ conn' = [conn EXCEPT ![task_id] = "open"]
    /\ task_id' = task_id + 1
    /\ UNCHANGED <<codec, link, client, ids, mutex, cli, watch, exit_code, log_every_status, log, inbox, wire, nframes>>

\* the client closes its socket
Disconnect(t) ==
    /\ Running
    /\ conn[t] = "open"
    /\ conn' = [conn EXCEPT ![t] = "closed"]
    /\ UNCHANGED <<codec, link, client, ids, mutex, cli, watch, exit_code, log_every_status, log, task_id, locked_data, task,
                   inbox, wire, nframes>>

\* a break after which the task stays in the registry
break_and_stay_registered(t) ==
    /\ locked_data' = locked_data
    /\ Commit(t, TaskState("ended"), inbox)

\* the loop is left with an error (break x) and unregister_task runs
break_and_unregister(t) ==
    /\ locked_data' = locked_data \ {t}
    /\ Commit(t, TaskState("ended"), inbox)

\* select!: receive_async reads zero bytes, Err(ClientDisconnected)
ReceiveDisconnected(t) ==
    /\ Running
    /\ task[t].pc = "select"
    /\ conn[t] = "closed"
    /\ break_and_unregister(t)
    /\ UNCHANGED <<codec, link, client, ids, mutex, cli, watch, exit_code, log_every_status, log, task_id, wire, nframes>>

\* select!: receive_async fails to decode, Err(CommandParseError)
ReceiveParseError(t) ==
    /\ Running
    /\ task[t].pc = "select"
    /\ conn[t] = "open"
    /\ nframes' = nframes + 1
    /\ break_and_unregister(t)
    /\ UNCHANGED <<codec, link, client, ids, mutex, cli, watch, exit_code, log_every_status, log, task_id, wire>>

\* select!: receive_async is handed bytes that from_bytes refuses with an
\* error other than TooFewBytes (main.rs: Err(x) => break x); codec keeps the
\* bytes and what from_bytes said of them, on the build of the run
ReceiveMalformed(t, bytes, big_endian) ==
    /\ Running
    /\ task[t].pc = "select"
    /\ conn[t] = "open"
    /\ codec.pc = "idle" \/ codec.big_endian = big_endian
    /\ LET parse == from_bytes(bytes, big_endian)
       IN  /\ parse.error \notin {"None", "TooFewBytes"}
           /\ codec' = [CodecState("parsed", big_endian, NoCommand) EXCEPT
                            !.bytes = bytes, !.parse = parse]
    /\ nframes' = nframes + 1
    /\ break_and_unregister(t)
    /\ UNCHANGED <<link, client, ids, mutex, cli, watch, exit_code, log_every_status, log, task_id, wire>>

\* an is_new_error that looks only at the kind of the stored status
is_new_error_by_kind(r, new_err) == r.status = StatusOk

\* ClientState::process_command, SetStatusError arm: is_new_error
is_new_error(r, new_err) == r.status = StatusOk \/ r.status[1] # new_err

\* ClientState::process_command: the lines it prints
process_command_log(r, f) ==
    CASE f.tag = "Abort" -> <<"Received abort command">>
      [] f.tag = "SetStatusOk" ->
            IF log_every_status \/ r.status # StatusOk
            THEN <<"Client " \o get_name_for_logging(r) \o " is ok">>
            ELSE <<>>
      [] f.tag = "SetStatusError" ->
            IF log_every_status \/ is_new_error(r, f.str)
            THEN <<"Client " \o get_name_for_logging(r) \o " has error: " \o f.str>>
            ELSE <<>>
      [] f.tag = "SetName" -> <<"Name set to " \o f.str>>
      [] OTHER -> <<>>

\* ClientState::process_command: the name and the status it stores
process_command_state(r, f) ==
    CASE f.tag = "SetStatusOk" -> [r EXCEPT !.status = StatusOk]
      [] f.tag = "SetStatusError" -> [r EXCEPT !.status = StatusErr(f.str)]
      [] f.tag = "SetName" -> [r EXCEPT !.name = Some(f.str)]
      [] OTHER -> r

\* the arm of process_command for the RefreshAllClients frame: main.rs handles
\* its result, the arm itself is not in client_state.rs as given
process_command_refresh_all == "RefreshAllClients"

\* the arm of process_command for the ListClients frame, which is not in
\* client_state.rs as given
process_command_list_clients == "ListClients"

\* ClientState::process_command: its ProcessCommandResult, "panic" for the two
\* frames it panics on ("exit" for Abort, which never returns)
process_command(f) ==
    CASE f.tag = "Abort" -> "exit"
      [] f.tag = "GetStatuses" -> "GetStatuses"
      [] f.tag = "RefreshClientByName" -> "RefreshClientByName"
      [] f.tag = "RefreshAllClients" -> process_command_refresh_all
      [] f.tag = "ListClients" -> process_command_list_clients
      [] f.tag \in {"Statuses", "Refresh"} -> "panic"
      [] OTHER -> "Ok"

\* TaskCommunication::read_messages up to its first suspension
read_messages(t, r, include) ==
    snapshot_and_broadcast(t, r, ReadMessageRequest(t), include)

\* TaskCommunication::refresh_client_by_name
refresh_client_by_name(t, r, n) ==
    snapshot_and_broadcast(t, r, RefreshByName(n), FALSE)

\* TaskCommunication::refresh_all_clients
refresh_all_clients(t, r) ==
    snapshot_and_broadcast(t, r, RefreshAll, FALSE)

\* TaskCommunication::list_clients up to its first suspension
list_clients(t, r) ==
    snapshot_and_broadcast(t, r, ListClientsRequest(t), FALSE)

\* execute_command_from_client, for a frame other than Abort
execute_command_from_client(t, r, f) ==
    LET res == process_command(f)
        r1 == process_command_state(r, f)
    IN  CASE res = "panic" -> TaskState("panicked")
          [] res = "GetStatuses" -> read_messages(t, r1, f.flag)
          [] res = "RefreshClientByName" -> refresh_client_by_name(t, r1, f.str)
          [] res = "RefreshAllClients" -> refresh_all_clients(t, r1)
          [] res = "ListClients" -> list_clients(t, r1)
          [] OTHER -> r1

\* select!: receive_async returns Ok(f)
Receive(t, f) ==
    /\ Running
    /\ task[t].pc = "select"
    /\ conn[t] = "open"
    /\ nframes' = nframes + 1
    /\ log' = log \o process_command_log(task[t], f)
    /\ IF process_command(f) = "exit"
       THEN /\ exit_code' = Some(0)
            /\ UNCHANGED <<task, inbox, conn>>
       ELSE /\ exit_code' = exit_code
            /\ Commit(t, execute_command_from_client(t, task[t], f), inbox)
    /\ UNCHANGED <<codec, link, client, ids, mutex, cli, watch, log_every_status, task_id, locked_data, wire>>

\* sender.send(message): "err" when the receiver is gone, "ok" when the
\* channel has room, "wait" when it is full
send(ib, u) ==
    IF Closed(u) THEN "err" ELSE IF HasRoom(ib, u) THEN "ok" ELSE "wait"
deliver(ib, u, m) == [ib EXCEPT ![u] = Append(@, m)]

\* broadcast: sender.send(message.clone()).await to the next peer u of the
\* snapshot.  The order of the HashMap's iterator is not specified: u is any
\* peer not yet sent to.  On a full inbox the task stays in this send
\* (sending = u) until there is room or the receiver is gone.  The result of
\* the send is dropped (let _send_result).
BroadcastSend(t, u) ==
    /\ Running
    /\ task[t].pc = "broadcast"
    /\ u \in task[t].todo
    /\ task[t].sending \in {NoTask, u}
    /\ LET r == task[t]
           s == send(inbox, u)
       IN  IF s = "wait"
           THEN /\ r.sending = NoTask
                /\ Commit(t, [r EXCEPT !.sending = u], inbox)
           ELSE Commit(t, broadcast(t, [r EXCEPT !.todo = @ \ {u}, !.sending = NoTask]),
                       IF s = "ok" THEN deliver(inbox, u, r.message) ELSE inbox)
    /\ UNCHANGED <<codec, link, client, ids, mutex, cli, watch, exit_code, log_every_status, log, task_id, locked_data, wire, nframes>>

\* a unicast that sends through the Sender of the task registered after u
\* instead of the Sender the request carries
unicast_inbox_to_next(ib, u, m) ==
    LET v == (u + 1) % MaxTasks
    IN  IF send(ib, v) = "ok" THEN deliver(ib, v, m) ELSE ib

\* unicast: sender.send(message), "Could not send" when the receiver is gone
unicast(r, ib, u, m) ==
    LET s == send(ib, u)
    IN  CASE s = "err" -> TaskState("panicked")
          [] s = "ok" -> Returned(r)
          [] OTHER -> [r EXCEPT !.pc = "unicast", !.sending = u, !.message = m]
unicast_inbox(ib, u, m) == IF send(ib, u) = "ok" THEN deliver(ib, u, m) ELSE ib

\* process_task_message: the response to a request
response(r, m) ==
    IF m.type = "ListClientsRequest"
    THEN ListClientsResponse(get_name_for_logging(r))
    ELSE ReadMessageResponse(r.status, get_name_for_logging(r))
IsRequest(m) == m.type \in {"ReadMessageRequest", "ListClientsRequest"}

\* a process_task_message whose RefreshByName arm compares the name the peer
\* is logged under, "<Unknown>" for a peer without a name
process_task_message_by_logged_name(r, ib, m) ==
    CASE IsRequest(m) -> unicast(r, ib, m.from, response(r, m))
      [] m.type = "RefreshByName" ->
            IF get_name_for_logging(r) = m.str
            THEN push_command_to_send(r, Refresh)
            ELSE r
      [] m.type = "RefreshAll" -> push_command_to_send(r, Refresh)
      [] OTHER -> TaskState("panicked")

\* TaskCommunication::process_task_message: the new state of the task
process_task_message(r, ib, m) ==
    CASE IsRequest(m) -> unicast(r, ib, m.from, response(r, m))
      [] m.type = "RefreshByName" ->
            IF r.name # None /\ r.name[1] = m.str
            THEN push_command_to_send(r, Refresh)
            ELSE r
      [] m.type = "RefreshAll" -> push_command_to_send(r, Refresh)
      [] OTHER -> TaskState("panicked")

\* select!: receiver.recv() returns Some(x)
ProcessTaskMessage(t) ==
    /\ Running
    /\ task[t].pc = "select"
    /\ inbox[t] # <<>>
    /\ LET m == Head(inbox[t])
           ib == [inbox EXCEPT ![t] = Tail(@)]
           r == task[t]
       IN  Commit(t, process_task_message(r, ib, m),
                  IF IsRequest(m) THEN unicast_inbox(ib, m.from, response(r, m)) ELSE ib)
    /\ UNCHANGED <<codec, link, client, ids, mutex, cli, watch, exit_code, log_every_status, log, task_id, locked_data, wire, nframes>>

\* unicast: the send that was waiting for room completes
UnicastResume(t) ==
    /\ Running
    /\ task[t].pc = "unicast"
    /\ LET r == task[t]
       IN  /\ send(inbox, r.sending) # "wait"
           /\ Commit(t, unicast(r, inbox, r.sending, r.message),
                     unicast_inbox(inbox, r.sending, r.message))
    /\ UNCHANGED <<codec, link, client, ids, mutex, cli, watch, exit_code, log_every_status, log, task_id, locked_data, wire, nframes>>

\* collect: receiver.recv() returns Some(message)
CollectRecv(t) ==
    /\ Running
    /\ task[t].pc = "collect"
    /\ inbox[t] # <<>>
    /\ Commit(t, collect(t, [task[t] EXCEPT !.result = Append(@, Head(inbox[t]))]),
              [inbox EXCEPT ![t] = Tail(@)])
    /\ UNCHANGED <<codec, link, client, ids, mutex, cli, watch, exit_code, log_every_status, log, task_id, locked_data, wire, nframes>>

\* select!: get_command_to_send returns a frame and send_async writes it.  The
\* write fails only on a socket the client has closed, and then not always.
SendCommand(t, ok) ==
    /\ Running
    /\ task[t].pc = "select"
    /\ task[t].outbound # <<>>
    /\ ok \/ conn[t] = "closed"
    /\ IF ok
       THEN /\ wire' = [wire EXCEPT ![t] = Append(@, Head(task[t].outbound))]
            /\ Commit(t, [task[t] EXCEPT !.outbound = Tail(@)], inbox)
            /\ UNCHANGED locked_data
       ELSE /\ wire' = wire
            /\ break_and_unregister(t)
    /\ UNCHANGED <<codec, link, client, ids, mutex, cli, watch, exit_code, log_every_status, log, task_id, nframes>>

\* ------------------------------------------------ the registry's Mutex
\* The same handlers with the lock of locked_data made visible: a task that
\* calls register_task, get_locked_data_snapshot or unregister_task first
\* awaits the Mutex (pc "register", "snapshot", "unregister" while mutex is
\* not the task), then holds it (mutex is the task) for the map operation.

\* a get_locked_data_snapshot that hands its MutexGuard on to its caller
guard_kept_after_snapshot(t) == t

\* get_locked_data_snapshot: `lock` is a local, dropped when the clone of the
\* map is returned
guard_after_snapshot(t) == NoTask

\* main: tokio::spawn(handle_client_async(task_id, ..)), task_id += 1; the
\* task runs up to the lock().await of register_task
Spawn ==
    /\ Running
    /\ task_id \in Tasks
    /\ task' = [task EXCEPT ![task_id] = TaskState("register")]
    /\ conn' = [conn EXCEPT ![task_id] = "open"]
    /\ task_id' = task_id + 1
    /\ UNCHANGED <<codec, link, client, ids, mutex, cli, watch, exit_code, log_every_status, log,
                   locked_data, inbox, wire, nframes>>

\* self.locked_data.lock().await returns the guard
Lock(t) ==
    /\ Running
    /\ task[t].pc \in {"register", "snapshot", "unregister"}
    /\ mutex = NoTask
    /\ mutex' = t
    /\ UNCHANGED <<codec, link, client, ids, cli, watch, exit_code, log_every_status, log, task_id,
                   locked_data, conn, task, inbox, wire, nframes>>

\* register_task with the guard: data.insert(task_id, ..); the guard is
\* dropped on return and the task enters its loop
RegisterTask(t) ==
    /\ Running
    /\ task[t].pc = "register" /\ mutex = t
    /\ locked_data' = locked_data \cup {t}
    /\ mutex' = NoTask
    /\ task' = [task EXCEPT ![t].pc = "select"]
    /\ UNCHANGED <<codec, link, client, ids, cli, watch, exit_code, log_every_status, log, task_id,
                   conn, inbox, wire, nframes>>

\* the task message a frame makes its handler broadcast
request_message(t, f) ==
    CASE f.tag = "GetStatuses" -> ReadMessageRequest(t)
      [] f.tag = "RefreshClientByName" -> RefreshByName(f.str)
      [] f.tag = "RefreshAllClients" -> RefreshAll
      [] f.tag = "ListClients" -> ListClientsRequest(t)

\* select!: receive_async returns a frame whose handling starts with
\* get_locked_data_snapshot; the task runs up to its lock().await
ReceiveRequest(t, f) ==
    /\ Running
    /\ task[t].pc = "select"
    /\ conn[t] = "open"
    /\ process_command(f) \notin {"exit", "panic", "Ok"}
    /\ nframes' = nframes + 1
    /\ task' = [task EXCEPT ![t] = [@ EXCEPT !.pc = "snapshot",
                                             !.message = request_message(t, f),
                                             !.include_names = f.flag]]
    /\ UNCHANGED <<codec, link, client, ids, mutex, cli, watch, exit_code, log_every_status, log,
                   task_id, locked_data, conn, inbox, wire>>

\* get_locked_data_snapshot with the guard: original_data.clone(); then the
\* broadcast begins
GetLockedDataSnapshot(t) ==
    /\ Running
    /\ task[t].pc = "snapshot" /\ mutex = t
    /\ mutex' = guard_after_snapshot(t)
    /\ Commit(t, broadcast(t, [task[t] EXCEPT !.data = locked_data,
                                              !.todo = locked_data \ {t}]), inbox)
    /\ UNCHANGED <<codec, link, client, ids, cli, watch, exit_code, log_every_status, log, task_id,
                   locked_data, wire, nframes>>

\* select!: receive_async reads zero bytes, break x; the task runs up to the
\* lock().await of unregister_task
Break(t) ==
    /\ Running
    /\ task[t].pc = "select"
    /\ conn[t] = "closed"
    /\ task' = [task EXCEPT ![t].pc = "unregister"]
    /\ UNCHANGED <<codec, link, client, ids, mutex, cli, watch, exit_code, log_every_status, log,
                   task_id, locked_data, conn, inbox, wire, nframes>>

\* unregister_task with the guard: data.remove(&task_id); the guard is
\* dropped on return and handle_client_async returns
UnregisterTask(t) ==
    /\ Running
    /\ task[t].pc = "unregister" /\ mutex = t
    /\ mutex' = NoTask
    /\ break_and_unregister(t)
    /\ UNCHANGED <<codec, link, client, ids, cli, watch, exit_code, log_every_status, log, task_id,
                   wire, nframes>>

\* what the clients and the listener do: connect, send a frame of F (at most
\* n frames in a run), send bytes that do not decode, disconnect; each only
\* in a state where Calm holds
Environment(F, n, c, Calm) ==
    \/ Calm /\ task_id < c /\ Accept
    \/ \E t \in Tasks : Calm /\ Disconnect(t)
    \/ \E t \in Tasks : Calm /\ nframes < n /\ ReceiveParseError(t)
    \/ \E t \in Tasks, f \in F : Calm /\ nframes < n /\ Receive(t, f)

\* what the handler tasks do on their own
Handlers ==
    \/ \E t \in Tasks : ReceiveDisconnected(t)
    \/ \E t \in Tasks, u \in Tasks : BroadcastSend(t, u)
    \/ \E t \in Tasks : ProcessTaskMessage(t)
    \/ \E t \in Tasks : UnicastResume(t)
    \/ \E t \in Tasks : CollectRecv(t)
    \/ \E t \in Tasks, ok \in BOOLEAN : SendCommand(t, ok)

\* the server with clients that send any frame at any time
Next == Environment(ClientFrames, MaxFrames, MaxTasks, TRUE) \/ Handlers
Spec == Init /\ [][Next]_vars

\* no coordination operation is in progress: no task is inside a broadcast, a
\* collect or a unicast, and no task message waits in an inbox
NoOperation ==
    \A t \in Tasks : task[t].pc \notin {"broadcast", "collect", "unicast"} /\ inbox[t] = <<>>

\* the frames of the clients that set and read statuses, and one frame only
\* a server sends
StatusFrames ==
    {SetStatusOk, Refresh, SetName("w1")}
        \cup {SetStatusError(m) : m \in Errors}
        \cup {GetStatuses(b) : b \in BOOLEAN}

\* the server with clients that connect, disconnect and send frames only
\* while no coordination operation is in progress
QuietNext == Environment(StatusFrames, QuietFrames, MaxTasks, NoOperation) \/ Handlers
QuietSpec == Init /\ [][QuietNext]_vars

\* the frames of the clients that name themselves, ask for refreshes and read
\* statuses
RefreshFrames ==
    {SetName("w1"), RefreshClientByName("w1"), RefreshAllClients, GetStatuses(FALSE)}

\* the server with such clients, which send at any time
RefreshNext == Environment(RefreshFrames, RefreshBound, RefreshTasks, TRUE) \/ Handlers
RefreshSpec == Init /\ [][RefreshNext]_vars

\* tokio polls every task that can go on, and select! picks among the ready
\* branches at random: a branch that stays ready is taken
Fairness ==
    \A t \in Tasks :
        /\ WF_vars(ReceiveDisconnected(t))
        /\ WF_vars(\E u \in Tasks : BroadcastSend(t, u))
        /\ WF_vars(ProcessTaskMessage(t))
        /\ WF_vars(UnicastResume(t))
        /\ WF_vars(CollectRecv(t))
        /\ WF_vars(SendCommand(t, TRUE))
FairSpec == Spec /\ Fairness
QuietFairSpec == QuietSpec /\ Fairness
RefreshFairSpec == RefreshSpec /\ Fairness

\* connections and frames of the run with undecodable bytes
TagTasks == 2
TagBound == 3
\* the frames of the clients that set and read statuses
TagFrames == {SetStatusOk, GetStatuses(FALSE)}

\* the server with clients that send such frames or bytes that do not decode
\* (a first byte outside the tag table) at any time, and never close their
\* sockets themselves: a handler ends only on the bytes it could not decode
TagNext ==
    \/ task_id < TagTasks /\ Accept
    \/ \E t \in Tasks : nframes < TagBound /\ ReceiveParseError(t)
    \/ \E t \in Tasks, f \in TagFrames : nframes < TagBound /\ Receive(t, f)
    \/ \E t \in Tasks, u \in Tasks : BroadcastSend(t, u)
    \/ \E t \in Tasks : ProcessTaskMessage(t)
    \/ \E t \in Tasks : CollectRecv(t)
    \/ \E t \in Tasks : SendCommand(t, TRUE)
TagSpec == Init /\ [][TagNext]_vars
TagFairSpec == TagSpec /\ Fairness

\* connections and frames of the run with refreshes only
BroadcastTasks == 3
BroadcastBound == 3
\* the frames of the clients that ask for refreshes
BroadcastFrames == {RefreshAllClients, RefreshClientByName("w1")}

\* the server with clients that connect and ask for refreshes at any time,
\* and stay connected: every operation of a handler is a broadcast that
\* awaits no reply
BroadcastNext ==
    \/ task_id < BroadcastTasks /\ Accept
    \/ \E t \in Tasks, f \in BroadcastFrames : nframes < BroadcastBound /\ Receive(t, f)
    \/ \E t \in Tasks, u \in Tasks : BroadcastSend(t, u)
    \/ \E t \in Tasks : ProcessTaskMessage(t)
    \/ \E t \in Tasks : SendCommand(t, TRUE)
BroadcastSpec == Init /\ [][BroadcastNext]_vars

\* frames of the run with client lists
ListBound == 3
\* the frames of the clients that name themselves and list the clients
ListFrames == {SetName("w1"), ListClients}

\* the server with clients that connect, disconnect and send such frames only
\* while no coordination operation is in progress
ListNext == Environment(ListFrames, ListBound, MaxTasks, NoOperation) \/ Handlers
ListSpec == Init /\ [][ListNext]_vars

\* frames of the run with names
NameBound == 3
\* the frames of the clients that name themselves, rename themselves and ask
\* for a refresh by name, also by the name a peer without a name is logged
\* under
NameFrames ==
    {SetName("w1"), SetName("w2"), RefreshClientByName("w1"), RefreshClientByName("<Unknown>")}

\* the server with such clients, which send at any time and stay connected
NameNext ==
    \/ task_id < MaxTasks /\ Accept
    \/ \E t \in Tasks, f \in NameFrames : nframes < NameBound /\ Receive(t, f)
    \/ \E t \in Tasks, u \in Tasks : BroadcastSend(t, u)
    \/ \E t \in Tasks : ProcessTaskMessage(t)
    \/ \E t \in Tasks : SendCommand(t, TRUE)
NameSpec == Init /\ [][NameNext]_vars

\* frames of the run with requests and replies
ReplyBound == 2
\* the frames of the clients that read statuses, list the clients and ask for
\* a refresh of everyone
ReplyFrames == {GetStatuses(FALSE), ListClients, RefreshAllClients}

\* the server with such clients, which connect, disconnect and send at any time
ReplyNext == Environment(ReplyFrames, ReplyBound, MaxTasks, TRUE) \/ Handlers
ReplySpec == Init /\ [][ReplyNext]_vars

\* connections and frames of the run with the Mutex visible
MutexTasks == 3
MutexBound == 2
\* the frames of the clients that read statuses
MutexFrames == {GetStatuses(FALSE)}

\* the server with the lock of the registry visible, with clients that
\* connect, disconnect and send such frames at any time
MutexNext ==
    \/ task_id < MutexTasks /\ Spawn
    \/ \E t \in Tasks : Lock(t)
    \/ \E t \in Tasks : RegisterTask(t)
    \/ \E t \in Tasks, f \in MutexFrames : nframes < MutexBound /\ ReceiveRequest(t, f)
    \/ \E t \in Tasks : GetLockedDataSnapshot(t)
    \/ \E t \in Tasks, u \in Tasks : BroadcastSend(t, u)
    \/ \E t \in Tasks : ProcessTaskMessage(t)
    \/ \E t \in Tasks : UnicastResume(t)
    \/ \E t \in Tasks : CollectRecv(t)
    \/ \E t \in Tasks : SendCommand(t, TRUE)
    \/ \E t \in Tasks : Disconnect(t)
    \/ \E t \in Tasks : Break(t)
    \/ \E t \in Tasks : UnregisterTask(t)
MutexSpec == Init /\ [][MutexNext]_vars

\* tokio's Mutex is granted to its waiters in turn, and the task that holds it
\* runs on to the end of its map operation without suspending; nothing is
\* assumed of the sends and receives of the handlers
MutexFairness ==
    /\ \A t \in Tasks : WF_vars(Lock(t))
    /\ WF_vars(\E t \in Tasks : RegisterTask(t) \/ GetLockedDataSnapshot(t) \/ UnregisterTask(t))
MutexFairSpec == MutexSpec /\ MutexFairness

\* the server before any connection, for the runs that are about one frame,
\* one connection or the client
ServerIdle ==
    /\ exit_code = None
    /\ log_every_status = FALSE
    /\ log = <<>>
    /\ task_id = 0
    /\ locked_data = {}
    /\ conn = [t \in Tasks |-> "none"]
    /\ task = [t \in Tasks |-> TaskState("free")]
    /\ inbox = [t \in Tasks |-> <<>>]
    /\ wire = [t \in Tasks |-> <<>>]
    /\ nframes = 0

\* the codec applied to every command of the tag table, on either build
CodecInit == ServerIdle /\ codec \in CodecInputs /\ link = LinkIdle /\ client = ClientIdle /\ watch = WatchIdle /\ cli = CliIdle /\ mutex = NoTask /\ ids = IdIdle
CodecNext ==
    \/ ToBytes
    \/ \E n \in 0 .. (2 * DwordSize + 1 + MaxTexts * (DwordSize + 1)) : Cut(n)
    \/ FromBytes
CodecSpec == CodecInit /\ [][CodecNext]_vars

\* one direction of a connection, with every way the socket can take and
\* hand out the bytes
LinkInit == ServerIdle /\ codec = CodecIdle /\ link \in LinkInputs /\ client = ClientIdle /\ watch = WatchIdle /\ cli = CliIdle /\ mutex = NoTask /\ ids = IdIdle
LinkNext ==
    \/ \E c \in LinkCommands : Push(c)
    \/ \E n \in 1 .. (1 + 2 * DwordSize + 1) : SendAsync(n)
    \/ SendAsyncError
    \/ Close
    \/ \E k \in 0 .. (MaxSend * (1 + 2 * DwordSize + 1)) : ReceiveAsync(k)
LinkSpec == LinkInit /\ [][LinkNext]_vars
LinkFairSpec == LinkSpec /\ WF_vars(\E k \in 0 .. (MaxSend * (1 + 2 * DwordSize + 1)) : ReceiveAsync(k))

\* the client process, with every configuration
ClientInit == ServerIdle /\ codec = CodecIdle /\ link = LinkIdle /\ client \in ClientInputs /\ watch = WatchIdle /\ cli = CliIdle /\ mutex = NoTask /\ ids = IdIdle
ClientNext ==
    \/ ServerStarts
    \/ ServerCloses
    \/ ServerRefreshes
    \/ ConnectFailed
    \/ Connected
    \/ \E n \in 0 .. (1 + DwordSize + 1), ok \in BOOLEAN : SetClientName(n, ok)
    \/ \E n \in 0 .. (1 + DwordSize + 1), ok \in BOOLEAN : Request(n, ok)
    \/ Reply
    \/ Delay
    \/ \E c \in StatusCommands, n \in 0 .. (1 + DwordSize + 1), ok \in BOOLEAN : DoWatch(c, n, ok)
    \/ IntervalExpires
    \/ ReceiveRefresh
    \/ ReceiveEnd
ClientSpec == ClientInit /\ [][ClientNext]_vars

\* process_command_output applied to every output of a command, in every
\* watch mode
WatchInit ==
    /\ ServerIdle /\ codec = CodecIdle /\ link = LinkIdle /\ client = ClientIdle
    /\ watch \in WatchInputs /\ cli = CliIdle /\ mutex = NoTask /\ ids = IdIdle
WatchNext == ProcessCommandOutput
WatchSpec == WatchInit /\ [][WatchNext]_vars

\* Config::parse applied to every command line of the run
CliInit ==
    /\ ServerIdle /\ codec = CodecIdle /\ link = LinkIdle /\ client = ClientIdle
    /\ watch = WatchIdle /\ cli \in CliInputs /\ mutex = NoTask /\ ids = IdIdle
CliNext == ParseAction \/ ParseExtraArg \/ ParseEnd
CliSpec == CliInit /\ [][CliNext]_vars

\* the counter of task ids on every build, from the start of the server and
\* from close to the end of the range of usize
IdInit ==
    /\ ServerIdle /\ codec = CodecIdle /\ link = LinkIdle /\ client = ClientIdle
    /\ watch = WatchIdle /\ cli = CliIdle /\ mutex = NoTask /\ ids \in IdInputs
IdNext ==
    \/ AcceptId
    \/ \E id \in ids.registry : UnregisterId(id)
IdSpec == IdInit /\ [][IdNext]_vars

\* ---------------------------------------------------------------------------
\* what the claims speak about

\* task t is inside read_messages: it broadcasts its request or collects
InRead(t) ==
    task[t].pc \in {"broadcast", "collect"} /\ task[t].message.type = "ReadMessageRequest"

\* task t has a handler that runs
Live(t) == task[t].pc \notin {"free", "ended", "panicked"}

\* how many frames of one tag a queue holds
Count(q, tag) == Len(SelectSeq(q, LAMBDA f : f.tag = tag))

\* C8: once a handler has ended, on whichever path, the registry does not
\* hold its task-id
C8_UnregisterOnEveryPath ==
    \A t \in Tasks : task[t].pc \in Dead => t \notin locked_data

\* C4: while two handlers are both inside read_messages, neither of them
\* terminates
C4_ConcurrentGetStatuses ==
    [][\A t \in Tasks, u \in Tasks :
          (t # u /\ InRead(t) /\ InRead(u)) => task'[t].pc # "panicked"]_vars

\* C7: a handler that receives Abort logs "Received abort command" and sets
\* the exit code 0 in that same step, leaving every queue as it was, and no
\* step of the server happens once the exit code is set
C7_AbortExits ==
    [][/\ exit_code = None
       /\ \A t \in Tasks :
             Receive(t, Abort) =>
                 /\ log' = Append(log, "Received abort command")
                 /\ exit_code' = Some(0)
                 /\ UNCHANGED <<task, inbox, wire, locked_data>>]_vars

\* C7 happens: the process has exited although a reply is still queued and a
\* task message is still waiting
C7_Witness ==
    /\ exit_code = Some(0)
    /\ log # <<>> /\ log[Len(log)] = "Received abort command"
    /\ \E t \in Tasks : task[t].outbound # <<>>
    /\ \E t \in Tasks : inbox[t] # <<>>

\* the Statuses frames task t has produced so far, written or still queued
Owed(t) == Count(wire[t], "Statuses") + Count(task[t].outbound, "Statuses")

\* C3: a handler that waits in collect eventually leaves it (or the process
\* exits)
C3_CollectFinishes ==
    \A t \in Tasks : (task[t].pc = "collect") ~> (task[t].pc # "collect" \/ ~Running)

\* C9: a GetStatuses of task t issued while another handler has ended by a
\* panic is answered: t comes back to its event loop, the reply queued (or
\* the process exits)
C9_RogueFrameIsLocal ==
    \A t \in Tasks :
        (/\ InRead(t) /\ task[t].todo = task[t].data \ {t}
         /\ \E u \in task[t].data \ {t} : task[u].pc = "panicked")
            ~> (task[t].pc = "select" \/ ~Running)

\* C10: a GetStatuses that task t starts after a task u that connected
\* earlier has ended normally, hence after u was unregistered, is answered: t
\* comes back to its event loop, the reply queued (or the process exits)
C10_StateDiesWithConnection ==
    \A t \in Tasks :
        (/\ InRead(t)
         /\ \E u \in Tasks : u < t /\ task[u].pc = "ended" /\ u \notin task[t].data)
            ~> (task[t].pc = "select" \/ ~Running)

\* C1: with the peers fixed and no other operation in progress, a handler
\* inside read_messages that has written k Statuses frames to its connection
\* and has none queued eventually writes one more (unless the process exits
\* or its own client leaves first); and a step queues at most one Statuses
\* frame, for a handler that is inside read_messages or has just taken a
\* frame from its client, and for no other handler
C1_GetStatusesReply ==
    /\ \A t \in Tasks, k \in 0 .. QuietFrames :
          (InRead(t) /\ Owed(t) = k /\ Count(wire[t], "Statuses") = k)
              ~> (Count(wire[t], "Statuses") > k \/ ~Running \/ task[t].pc = "ended")
    /\ [][\A u \in Tasks :
             Owed(u)' > Owed(u) =>
                 /\ Owed(u)' = Owed(u) + 1
                 /\ InRead(u) \/ nframes' = nframes + 1
                 /\ \A v \in Tasks \ {u} : Owed(v)' = Owed(v)]_vars

\* the other connections of task t
Others(t) == {u \in Tasks \ {t} : Live(u)}

\* the entry the reply holds for peer u
Entry(u, includeNames) ==
    IF includeNames
    THEN (IF task[u].name = None THEN "<Unknown>" ELSE task[u].name[1])
             \o ": " \o task[u].status[1]
    ELSE task[u].status[1]

\* list l holds one entry for each peer of S, in some order, and nothing else
IsListOf(l, S, includeNames) ==
    /\ Len(l) = Cardinality(S)
    /\ \E f \in [1 .. Len(l) -> S] :
          /\ \A i \in 1 .. Len(l), j \in 1 .. Len(l) : i # j => f[i] # f[j]
          /\ \A i \in 1 .. Len(l) : l[i] = Entry(f[i], includeNames)

\* the registry as read_messages of task t saw it: the snapshot it holds, or
\* the registry itself when the frame has yet to be taken
Snapshot(t) == IF InRead(t) THEN task[t].data ELSE locked_data

\* C2: with the peers fixed (no peer of the snapshot has left), the step that
\* ends read_messages queues a Statuses frame that holds one entry for every
\* other connection whose status is an error, and no other entry; the entry
\* is the message, or the name, ": " and the message, with <Unknown> for a
\* peer without a name
C2_StatusesContent ==
    [][\A t \in Tasks :
          (/\ Owed(t)' = Owed(t) + 1
           /\ Snapshot(t) \ {t} \subseteq Others(t))
              => LET q == task'[t].outbound
                     reply == q[Len(q)]
                 IN /\ reply.tag = "Statuses"
                    /\ IsListOf(reply.list,
                                {u \in Others(t) : task[u].status # StatusOk},
                                task[t].include_names)]_vars

\* C2 happens: a reply with names was written that holds the entry of a
\* named peer, and a reply without names that holds two entries
C2_Witness ==
    \/ \E t \in Tasks : \E i \in 1 .. Len(wire[t]) :
          /\ wire[t][i].tag = "Statuses" /\ wire[t][i].list = <<"w1: e1">>
          /\ \E u \in Others(t) : task[u].status = StatusOk
    \/ \E t \in Tasks : \E i \in 1 .. Len(wire[t]) :
          wire[t][i].tag = "Statuses" /\ Len(wire[t][i].list) = 2

\* task message m makes its receiver r queue a Refresh frame
Refreshes(m, r) ==
    \/ m.type = "RefreshAll"
    \/ m.type = "RefreshByName" /\ r.name = Some(m.str)

\* the Refresh frames task t has been asked for so far: written, queued, or
\* asked for by a task message that waits in its inbox
Due(t) ==
    Count(wire[t], "Refresh") + Count(task[t].outbound, "Refresh")
        + Len(SelectSeq(inbox[t], LAMBDA m : Refreshes(m, task[t])))

\* task s has taken a frame that asks for message m and has sent m to no
\* peer yet; t is one of the peers
Starts(s, m, t) ==
    /\ task[s].pc = "broadcast" /\ task[s].message = m
    /\ task[s].todo = task[s].data \ {s}
    /\ t \in task[s].todo /\ Live(t)

\* the tasks of the server whose clients ask for refreshes
RefreshPeers == 0 .. (RefreshTasks - 1)

\* C5: when a client's RefreshClientByName(n) is taken while the only watcher
\* named n is t, on another connection, and k Refresh frames (at most the
\* queue's capacity) were asked of t so far, more than k Refresh frames are
\* eventually written to t's connection (unless the process exits or t's
\* client leaves first)
C5_RefreshByName ==
    \A s \in RefreshPeers, t \in RefreshPeers, k \in 0 .. QueueCapacity :
        (/\ Starts(s, RefreshByName("w1"), t) /\ task[t].name = Some("w1")
         /\ \A u \in Tasks \ {t} : task[u].name # Some("w1")
         /\ Due(t) = k)
            ~> (Count(wire[t], "Refresh") > k \/ ~Running \/ task[t].pc = "ended")

\* C6: when a client's RefreshAllClients is taken while every other handler
\* is in its event loop and k Refresh frames (at most the queue's capacity)
\* were asked of the other connection t so far, more than k Refresh frames
\* are eventually written to t's connection (unless the process exits, t's
\* client leaves first, or t leaves its event loop for a GetStatuses of its
\* own)
C6_RefreshAll ==
    \A s \in RefreshPeers, t \in RefreshPeers, k \in 0 .. QueueCapacity :
        (/\ Starts(s, RefreshAll, t)
         /\ \A u \in Tasks \ {s} : Live(u) => task[u].pc = "select"
         /\ Due(t) = k)
            ~> (\/ Count(wire[t], "Refresh") > k
                \/ ~Running \/ task[t].pc = "ended" \/ InRead(t))

\* the frames that set a status
SetStatusFrames == {SetStatusOk} \cup {SetStatusError(m) : m \in Errors}

\* the line a status frame is logged with, for a client of the given name
StatusLine(name, f) ==
    IF f.tag = "SetStatusOk"
    THEN "Client " \o name \o " is ok"
    ELSE "Client " \o name \o " has error: " \o f.str

\* C11: the step that takes a SetStatusOk or SetStatusError frame appends
\* exactly one line to the log, the line of that status, when log_every_status
\* is set or the stored status changes, and leaves the log as it was otherwise
C11_StatusLogLines ==
    [][\A t \in Tasks, f \in SetStatusFrames :
          Receive(t, f) =>
              IF log_every_status \/ task'[t].status # task[t].status
              THEN log' = Append(log, StatusLine(IF task[t].name = None
                                                 THEN "<Unknown>"
                                                 ELSE task[t].name[1], f))
              ELSE log' = log]_vars

\* C11 happens: without log_every_status one connection has sent three
\* frames which left two lines, Error(e1) then Error(e2), so one of the three
\* was a status frame that repeated the stored status
C11_Witness ==
    /\ ~log_every_status
    /\ task_id = 1 /\ nframes = 3 /\ Live(0)
    /\ task[0].outbound = <<>> /\ wire[0] = <<>>
    /\ log = <<"Client <Unknown> has error: e1", "Client <Unknown> has error: e2">>

\* --------------------------------------------------- transport claims
\* the bytes of a sequence of frames, one after the other
RECURSIVE Encoding(_)
Encoding(frames) ==
    IF frames = <<>> THEN <<>> ELSE to_bytes(Head(frames)) \o Encoding(Tail(frames))
IsPrefix(a, b) == Len(a) <= Len(b) /\ a = SubSeq(b, 1, Len(a))

\* C12: within one connection the frames are applied in the order they were
\* sent on the wire.  When the bytes on the wire are the frames the writer
\* sent, whole and in its order, the frames receive_async hands to the handler
\* (which applies and logs each before it receives the next) are, in order, the
\* first of those frames, however the socket cuts the bytes into reads: a
\* SetName sent before an Abort is never applied after it.
C12_WireOrder ==
    link.written = Encoding(link.sent) => IsPrefix(link.received, link.sent)

\* SetName then Abort were sent and have both been received, in that order
C12_Witness ==
    /\ link.sent = <<Command(ID_SET_NAME, <<97>>, FALSE, <<>>), Command(ID_ABORT, <<>>, FALSE, <<>>)>>
    /\ link.received = link.sent

\* C13: the outbound frames of a connection are written to its transport in
\* the order they were enqueued, none dropped, duplicated or reordered: the
\* bytes the socket has taken are at every moment the encodings of the frames
\* taken from the queue, whole and in order, and while the connection stands
\* these frames followed by the queued ones are the frames enqueued.
C13_OutboundOrder ==
    /\ link.written = Encoding(link.sent)
    /\ ~link.closed => link.sent \o link.queue = link.enqueued

\* C16: receive() on a stream that hands over one frame in several reads
\* eventually returns the frame.  On a build that decodes the lengths as they
\* were encoded: once the socket has taken the first k frames whole, the
\* reader eventually has returned k frames.
C16_ReceiveCompletes ==
    \A k \in 1 .. MaxSend :
        (~link.big_endian /\ Len(link.sent) >= k /\ link.written = Encoding(link.sent))
            ~> (Len(link.received) >= k)

\* C17: send reports success only when every byte of the frame has been
\* written: every step in which send_async returns Ok for a frame adds the
\* whole encoding of that frame to the bytes the socket has taken.
C17_SendWritesAll ==
    [][Len(link'.sent) > Len(link.sent) =>
           link'.written = link.written \o to_bytes(Head(link.queue))]_vars

\* ------------------------------------------------------- codec claims
\* C14: for every frame F of the tag table, decode(encode(F)) is F, with
\* bytes_used the length of encode(F).
C14_RoundTrip ==
    codec.pc = "parsed" =>
        codec.parse = ServerCommandParse("None", codec.command, Len(codec.bytes))

IsSuffix(a, b) == Len(a) <= Len(b) /\ a = SubSeq(b, Len(b) - Len(a) + 1, Len(b))

\* C18: the watcher runs one iteration after the initial delay and one per
\* trigger (an expiry of the interval or a received Refresh), and each
\* iteration sends exactly one status frame: whenever the watcher waits for
\* its next trigger, the status frames it has sent are one more than the
\* triggers it has taken, and they are what it has put on the wire, each one
\* whole.
C18_WatcherIterations ==
    client.pc = "select" =>
        /\ Len(client.statuses) = 1 + client.triggers
        /\ IsSuffix(Encoding(client.statuses), client.out)

\* C19: when the connection of a watcher is lost (its action ends with
\* ClientDisconnected) the client goes back to connecting; for any other
\* action the client ends with exit code 1.
C19_WatcherReconnects ==
    [][client.error = "None" /\ client'.error = "ClientDisconnected" =>
           IF should_reconnect(client.action)
           THEN client'.pc = "connect" /\ client'.exit_code = None
           ELSE client'.exit_code = Some(1)]_vars

\* C20: connecting retries after each failed attempt; with
\* connection_attempts = k > 0 the client exits 1 at its k-th failed attempt
\* in a row, and with connection_attempts = 0 it retries without limit.
C20_ConnectionAttempts ==
    [][client.pc = "connect" /\ client'.failed = client.failed + 1 =>
           IF client.connection_attempts > 0 /\ client'.failed >= client.connection_attempts
           THEN client'.exit_code = Some(1)
           ELSE client'.pc = "connect" /\ client'.exit_code = None]_vars

\* ----------------------------------------------- command output claims
\* the lines of a text that are not empty after trimming, in order
NonEmptyLines(text) ==
    SelectSeq(lines(text), LAMBDA l : \E i \in 1 .. Len(l) : ~is_whitespace(l[i]))

\* the command has been executed and process_command_output has returned
\* for it in the given mode
Processed(mode) == watch.pc = "result" /\ watch.output.executed /\ watch.mode = mode

\* C21: in OneLineErrorExitCode mode an executed command with no exit code
\* gives Error("Exit code is not available"); exit code 0 gives Ok whatever
\* stdout holds; another exit code c gives Error(first non-empty trimmed
\* line of stdout) when there is such a line and Error("Exit code was c")
\* when there is none.
C21_OneLineErrorExitCode ==
    Processed("OneLineErrorExitCode") =>
        watch.result =
            IF watch.output.status = None THEN Err("Exit code is not available", <<>>)
            ELSE IF watch.output.status[1] = 0 THEN Ok
            ELSE IF NonEmptyLines(watch.output.text) # <<>>
                 THEN Err("", trim(NonEmptyLines(watch.output.text)[1]))
            ELSE Err("Exit code was ", display(watch.output.status[1]))

\* C22: a command that was not executed gives Error("Command was not
\* executed. " followed by the output text), in every mode, with every exit
\* code and every stdout.
C22_NotExecuted ==
    (watch.pc = "result" /\ ~watch.output.executed) =>
        watch.result = Err("Command was not executed. ", watch.output.text)
C22_Witness ==
    /\ watch.pc = "result" /\ ~watch.output.executed
    /\ watch.mode = "ExitCode" /\ watch.output.status = Some(0)
    /\ watch.output.text = <<97, 98>>
    /\ watch.result = Err("Command was not executed. ", <<97, 98>>)

C24_LineModes ==
    LET non_empty == NonEmptyLines(watch.output.text)
        trimmed == [i \in 1 .. Len(non_empty) |-> trim(non_empty[i])]
    IN  /\ Processed("OneLineError") =>
               watch.result = IF non_empty = <<>> THEN Ok ELSE Err("", trimmed[1])
        /\ Processed("MultiLineError") =>
               watch.result = IF non_empty = <<>> THEN Ok
                              ELSE Err("", join(trimmed, <<LineFeed>>))
C24_Witness ==
    /\ Processed("MultiLineError")
    /\ watch.output.status = Some(1)
    /\ watch.output.text = <<Space, 97, LineFeed, 98>>
    /\ watch.result = Err("", <<97, LineFeed, 98>>)

\* ------------------------------------------------- command line claims
SpecificOptions == {"-i", "-w", "-d", "-m", "-s"}
CommonOptions == {"-p", "-n", "-c", "-r"}
\* the action an option belongs to
ActionOf(option) == IF option = "-i" THEN "ReadMessages" ELSE "WatchCommand"

\* C27: whenever parse_extra_args meets an action-specific option with
\* another action (-i anywhere but read; -w, -d, -m, -s anywhere but watch),
\* parsing fails with InvalidArgument(option); -p, -n, -c, -r are accepted
\* with every action but help and version: they are never an invalid
\* argument, and with a value that parses the loop goes on to the next
\* argument.
C27_ActionSpecificOptions ==
    [][(cli.pc = "extra" /\ cli.args # <<>>) =>
          LET arg == Head(cli.args)
          IN  /\ (arg \in SpecificOptions /\ cli.action # ActionOf(arg)) =>
                     (cli'.pc = "done" /\ cli'.error = InvalidArgument(arg))
              /\ arg \in CommonOptions =>
                     /\ cli'.error.kind # "InvalidArgument"
                     /\ (Len(cli.args) >= 2 /\ cli.args[2] = "1") =>
                            (cli'.pc = "extra" /\ cli'.error = NoError
                             /\ cli'.args = Tail(Tail(cli.args)))]_vars
C27_Witness ==
    /\ cli.pc = "done"
    /\ cli.action = "ListClients"
    /\ cli.server_port = Some(1)
    /\ cli.error = InvalidArgument("-s")

\* ------------------------------------------------------ unknown tag claims
\* C26: a handler that reads a first byte outside the tag table ends and
\* unregisters, and no other handler is affected by it: a handler that waits
\* in a collect while a peer has ended this way comes out of the collect.
C26_UnknownTagIsLocal ==
    \A u \in Tasks :
        (task[u].pc = "collect" /\ \E t \in Tasks : task[t].pc = "ended")
            ~> (task[u].pc # "collect")

\* ------------------------------------------------------ broadcast claims
\* task t is suspended in the send of a broadcast, awaiting room in the
\* full inbox of u
Blocked(t, u) ==
    task[t].pc = "broadcast" /\ task[t].sending = u /\ send(inbox, u) = "wait"

\* C28: a broadcast never blocks on a peer whose inbox is full or closed:
\* no handler is ever suspended in the send of a broadcast, awaiting room
\* in a peer's inbox.
C28_BroadcastNeverBlocks == \A t \in Tasks, u \in Tasks : ~Blocked(t, u)

\* the handlers that are connected: registered and running
Connected3 == Cardinality({t \in Tasks : t \in locked_data /\ ~Closed(t)}) >= 3

\* C29: with three or more connected handlers, no reachable state has two
\* handlers each suspended in the send of a fire-and-forget broadcast into
\* the other's full inbox.
C29_NoMutualBlock ==
    Connected3 => \A t \in Tasks, u \in Tasks : ~(t # u /\ Blocked(t, u) /\ Blocked(u, t))

\* ------------------------------------------------------- response claims
\* C30: response sends are best-effort: a handler that takes from its inbox
\* a request whose requester has gone (the requester's inbox is closed)
\* discards the response and goes on with its event loop, and a handler
\* that awaits room for a response goes on when the requester goes; the
\* failure of the requester does not end the handler that answers.
C30_ResponseBestEffort ==
    [][\A t \in Tasks :
          /\ (/\ task[t].pc = "select" /\ inbox[t] # <<>>
              /\ IsRequest(Head(inbox[t]))
              /\ Closed(Head(inbox[t]).from)
              /\ inbox'[t] = Tail(inbox[t]))
                 => task'[t].pc = "select"
          /\ (task[t].pc = "unicast" /\ Closed(task[t].sending) /\ task'[t] # task[t])
                 => task'[t].pc = "select"]_vars

\* ---------------------------------------------------- client list claims
\* task t is inside list_clients: it broadcasts its request or collects
InList(t) ==
    task[t].pc \in {"broadcast", "collect"} /\ task[t].message.type = "ListClientsRequest"

\* the registry as list_clients of task t saw it: the snapshot it holds, or
\* the registry itself when the frame has yet to be taken
ListSnapshot(t) == IF InList(t) THEN task[t].data ELSE locked_data

\* the Clients frames task t has produced so far, written or still queued
OwedClients(t) == Count(wire[t], "Clients") + Count(task[t].outbound, "Clients")

\* the name a connection is listed under
ListedName(u) == IF task[u].name = None THEN "<Unknown>" ELSE task[u].name[1]

\* list l holds the name of each connection of S once, in some order, and
\* nothing else
IsNameListOf(l, S) ==
    /\ Len(l) = Cardinality(S)
    /\ \E f \in [1 .. Len(l) -> S] :
          /\ \A i \in 1 .. Len(l), j \in 1 .. Len(l) : i # j => f[i] # f[j]
          /\ \A i \in 1 .. Len(l) : l[i] = ListedName(f[i])

C31_PushCompletes ==
    \A t \in Tasks : (task[t].pc = "push" /\ conn[t] = "open") ~> (task[t].pc # "push")

\* ------------------------------------------- a refresh during a collect

\* C32: a RefreshAll, or a RefreshByName of its name, that a handler takes
\* from its inbox while it is inside a collect is not lost and does not harm
\* the handler: the handler does not panic, and the Refresh frame stays due
\* to its connection
C32_RefreshDuringCollect ==
    [][\A t \in Tasks :
          (/\ task[t].pc = "collect" /\ inbox[t] # <<>>
           /\ Refreshes(Head(inbox[t]), task[t])
           /\ inbox'[t] # inbox[t])
              => (task'[t].pc # "panicked" /\ Due(t)' >= Due(t))]_vars

\* ---------------------------------------------------- refresh by name

\* the step in which task t takes the message at the head of its inbox in its
\* event loop: the inbox, which holds one message, loses it, and the handler
\* neither reads from its socket, nor writes to it, nor unregisters
Takes(t) ==
    /\ task[t].pc = "select" /\ inbox[t] # <<>> /\ inbox'[t] = Tail(inbox[t])
    /\ UNCHANGED <<nframes, wire, locked_data>>

\* the step enqueues one Refresh frame for task t: the frame enters the
\* outbound queue, or the enqueue is begun and awaits room in the full queue
EnqueuesRefresh(t) ==
    \/ task'[t] = [task[t] EXCEPT !.outbound = Append(@, Refresh)]
    \/ /\ Len(task[t].outbound) = QueueCapacity
       /\ task'[t] = [task[t] EXCEPT !.pc = "push"]

\* the step takes the frame SetName(n) from the connection of task t
TakesSetName(t, n) ==
    /\ task[t].pc = "select" /\ nframes' = nframes + 1
    /\ log' = Append(log, "Name set to " \o n)
    /\ task'[t] = [task[t] EXCEPT !.name = Some(n)]
    /\ \A u \in Tasks \ {t} : task'[u] = task[u]

\* C33: a peer that takes RefreshByName(n) from its inbox enqueues one
\* Refresh frame if a name has been set on it and that name is n, and does
\* nothing otherwise (a peer without a name is never refreshed by name, not
\* by "<Unknown>" either); and a peer's name is the one of the most recent
\* SetName frame of its connection: it changes in no other step
C33_RefreshByNameMatch ==
    [][/\ \A t \in Tasks :
             Takes(t) /\ Head(inbox[t]).type = "RefreshByName"
                => IF task[t].name # None /\ task[t].name = Some(Head(inbox[t]).str)
                   THEN EnqueuesRefresh(t)
                   ELSE task'[t] = task[t]
       /\ \A t \in Tasks :
             (task'[t].name # task[t].name /\ task'[t].pc \notin Dead)
                => \E n \in {"w1", "w2"} : TakesSetName(t, n)]_vars

\* two peers that share the name w1 have each taken the RefreshByName("w1")
\* of one RefreshClientByName("w1") and have each one Refresh frame queued or
\* written; the sender, which has no name, has none
C33_Witness ==
    \E s \in Tasks : \E t \in Tasks \ {s} : \E u \in Tasks \ {s, t} :
        /\ nframes = NameBound
        /\ task[s].name = None /\ task[t].name = Some("w1") /\ task[u].name = Some("w1")
        /\ inbox[t] = <<>> /\ inbox[u] = <<>> /\ task[s].pc = "select"
        /\ Due(s) = 0 /\ Due(t) = 1 /\ Due(u) = 1

\* ------------------------------------------------- no delivery to oneself

\* C34: a handler never delivers to itself.  No step of task t puts a message
\* into t's own inbox (an inbox grows only in a step that leaves its owner as
\* it was), t is never among the peers its broadcast has yet to send to, and
\* no request in t's inbox carries t's own Sender; t does not count itself
\* among the replies it awaits (inside collect it holds fewer replies than the
\* snapshot has entries other than its own); and the Statuses reply it queues
\* holds at most one entry for each of those other entries, none for its own
C34_NoSelfDelivery ==
    /\ [][\A t \in Tasks :
             /\ Len(inbox'[t]) > Len(inbox[t]) => task'[t] = task[t]
             /\ (Owed(t)' = Owed(t) + 1 /\ InRead(t))
                   => LET q == task'[t].outbound
                      IN  Len(q[Len(q)].list) <= Cardinality(task[t].data \ {t})]_vars
    /\ [](\A t \in Tasks :
             /\ t \notin task[t].todo
             /\ \A i \in 1 .. Len(inbox[t]) : inbox[t][i].from # t
             /\ task[t].pc = "collect"
                   => (t \in task[t].data
                       /\ Len(task[t].result) < Cardinality(task[t].data \ {t})))

\* a connection whose own status is an error asked for the statuses while a
\* peer without an error was connected, and was sent an empty list
C34_Witness ==
    \E t \in Tasks :
        /\ task[t].status # StatusOk /\ task[t].pc = "select"
        /\ wire[t] = <<Statuses(<<>>)>>
        /\ \E u \in Others(t) : task[u].status = StatusOk /\ inbox[u] = <<>>

\* ------------------------------------------------------------ replies

IsReply(m) == m.type \in {"ReadMessageResponse", "ListClientsResponse"}
Replies(q) == SelectSeq(q, IsReply)
\* the reply that answers request m
AnswerType(m) ==
    IF m.type = "ReadMessageRequest" THEN "ReadMessageResponse" ELSE "ListClientsResponse"

\* task t is inside read_messages or list_clients
InRequest(t) == task[t].pc \in {"broadcast", "collect"} /\ IsRequest(task[t].message)

\* the peers that still owe task t a reply: its request waits in their inbox,
\* or their reply waits for room in t's inbox
Owing(t) ==
    {u \in Tasks \ {t} :
        \/ \E i \in 1 .. Len(inbox[u]) : IsRequest(inbox[u][i]) /\ inbox[u][i].from = t
        \/ task[u].pc = "unicast" /\ task[u].sending = t}

\* the step in which task u answers task t: it takes t's request from its
\* inbox, or its reply to t that waited for room goes through
Answers(u, t) ==
    \/ Takes(u) /\ IsRequest(Head(inbox[u])) /\ Head(inbox[u]).from = t
    \/ task[u].pc = "unicast" /\ task[u].sending = t /\ task'[u].pc # "unicast"

\* C35: a reply enters an inbox only in the step in which a peer answers a
\* request of the inbox's owner, one reply in that step, of the kind of the
\* request, while the owner is inside the operation that sent the request; a
\* peer that takes a request of a live requester puts its reply into the
\* requester's inbox or waits for room there, and into no other inbox; the
\* replies a requester has got or is owed never exceed the requests it has
\* sent; and a handler in its event loop never has a reply in its inbox
C35_RepliesAnswerRequests ==
    /\ [][\A t \in Tasks :
             /\ Len(Replies(inbox'[t])) > Len(Replies(inbox[t]))
                   => /\ InRequest(t)
                      /\ inbox'[t] = Append(inbox[t], inbox'[t][Len(inbox'[t])])
                      /\ inbox'[t][Len(inbox'[t])].type = AnswerType(task[t].message)
                      /\ \E u \in Tasks \ {t} : Answers(u, t)
                      /\ \A v \in Tasks \ {t} : Len(Replies(inbox'[v])) <= Len(Replies(inbox[v]))
             /\ \A u \in Tasks \ {t} :
                   (Takes(u) /\ IsRequest(Head(inbox[u])) /\ Head(inbox[u]).from = t /\ ~Closed(t))
                      => \/ Len(Replies(inbox'[t])) = Len(Replies(inbox[t])) + 1
                         \/ /\ task'[u].pc = "unicast" /\ task'[u].sending = t
                            /\ task'[u].message.type = AnswerType(Head(inbox[u]))]_vars
    /\ [](\A t \in Tasks :
             /\ InRequest(t) =>
                   Len(Replies(inbox[t])) + Len(Replies(task[t].result)) + Cardinality(Owing(t))
                       <= Cardinality((task[t].data \ {t}) \ task[t].todo)
             /\ Replies(inbox[t]) # <<>> => InRequest(t))

\* a handler that asked two peers is inside collect with the reply of one in
\* its result and the reply of the other in its inbox
C35_Witness ==
    \E t \in Tasks :
        /\ task[t].pc = "collect" /\ Cardinality(task[t].data) = 3
        /\ Len(Replies(task[t].result)) = 1 /\ Len(Replies(inbox[t])) = 1
        /\ Owing(t) = {}

\* ------------------------------------------------- the registry's Mutex

\* task t is inside a broadcast, a collect or a unicast: suspended, or about
\* to be, on a send to an inbox or on a receive from its own
OnInbox(t) == task[t].pc \in {"broadcast", "collect", "unicast"}

\* task t awaits the Mutex of the registry to register or to unregister
AwaitsRegistry(t) == task[t].pc \in {"register", "unregister"} /\ mutex # t

\* C36: the registry's Mutex is held only by a task that is at one of the
\* three map operations (register, snapshot, unregister), never by a task
\* that is inside a broadcast, a collect or a unicast or back in its event
\* loop; and a task that awaits the Mutex to register or to unregister gets
\* it, whatever broadcast or collect is in progress
C36_MutexDiscipline ==
    /\ [](\A t \in Tasks :
             mutex = t => task[t].pc \in {"register", "snapshot", "unregister"})
    /\ \A t \in Tasks : AwaitsRegistry(t) ~> (mutex = t)

\* a task holds the Mutex to register while one peer is suspended in a
\* broadcast on a full inbox and another is inside a collect
C36_Witness ==
    \E t \in Tasks, u \in Tasks, v \in Tasks :
        /\ mutex = t /\ task[t].pc = "register"
        /\ task[u].pc = "broadcast" /\ task[u].sending # NoTask
        /\ task[v].pc = "collect"

\* ------------------------------------------------------------ task ids

\* C37: task ids are unique for the lifetime of the server: the ids given out
\* are strictly increasing, none is an id that was given out before the run
\* began (none is smaller than the value the counter had then), and no
\* register_task has replaced an entry of the registry
C37_UniqueTaskIds ==
    /\ \A i \in 1 .. Len(ids.assigned), j \in 1 .. Len(ids.assigned) :
          i < j => usize_less(ids.assigned[i], ids.assigned[j])
    /\ \A i \in 1 .. Len(ids.assigned) : ~usize_less(ids.assigned[i], ids.first)
    /\ ~ids.overwritten

\* ------------------------------------------- who changes status and name

\* C38: the status and the name of a connection change only in a step in
\* which its own handler, in its event loop, takes a frame from its own
\* socket; that step changes one of the two, starts no operation, and leaves
\* every other handler, every inbox and every socket as it was.  So taking a
\* task message, a broadcast, a collect and the write of a frame leave every
\* status and every name unchanged (a handler that ends or panics is gone
\* with its state)
C38_OwnFramesOnly ==
    [][\A t \in Tasks :
          (/\ task'[t].pc \notin Dead
           /\ task'[t].status # task[t].status \/ task'[t].name # task[t].name)
              => /\ task[t].pc = "select" /\ task'[t].pc = "select"
                 /\ conn[t] = "open" /\ nframes' = nframes + 1
                 /\ task'[t].status = task[t].status \/ task'[t].name = task[t].name
                 /\ task'[t] = [task[t] EXCEPT !.status = task'[t].status,
                                               !.name = task'[t].name]
                 /\ \A u \in Tasks \ {t} : task'[u] = task[u]
                 /\ UNCHANGED <<inbox, wire, locked_data>>]_vars

\* a connection with an error status has answered a peer's request from its
\* inbox, the peer has collected the answer and written the Statuses frame,
\* and the status is still there
C38_Witness ==
    \E t \in Tasks : \E u \in Tasks \ {t} :
        /\ task[t].status = StatusErr("e1") /\ task[t].pc = "select" /\ inbox[t] = <<>>
        /\ wire[u] = <<Statuses(<<"e1">>)>>

\* connections and frames of the run with malformed payloads
MalformedTasks == 3
MalformedBound == 2
\* the frames of the clients that set and read statuses
MalformedFrames == {SetStatusError("e1"), GetStatuses(FALSE)}
\* a length prefix of one, in either byte order
PrefixesOfOne == {<<1, 0, 0, 0>>, <<0, 0, 0, 1>>}
\* bytes a client sends that are no frame: a GetStatuses with a boolean byte
\* outside {0, 1}, a string frame whose one byte of text is no UTF-8
MalformedBytes ==
    {<<ID_GET_STATUSES, b>> : b \in {2, 255}}
        \cup {<<id>> \o p \o <<x>> : id \in WithString, p \in PrefixesOfOne, x \in {128, 255}}

\* the server with clients that send frames, malformed payloads or other
\* bytes that do not decode, and disconnect, at any time
MalformedNext ==
    \/ Environment(MalformedFrames, MalformedBound, MalformedTasks, TRUE)
    \/ Handlers
    \/ \E t \in Tasks, bytes \in MalformedBytes, e \in BOOLEAN :
            nframes < MalformedBound /\ ReceiveMalformed(t, bytes, e)
MalformedSpec == Init /\ [][MalformedNext]_vars

\* ------------------------------------------------- malformed payload claims
\* the bytes are a GetStatuses frame whose boolean byte is neither 0 nor 1
BadBoolean(bytes) ==
    /\ Len(bytes) >= 2
    /\ bytes[1] = ID_GET_STATUSES
    /\ bytes[2] \notin {0, 1}

\* the bytes are a string frame, whole on this build, whose text is a lone
\* byte from 128 on: no UTF-8
BadString(bytes, big_endian) ==
    /\ Len(bytes) = 1 + DwordSize + 1
    /\ bytes[1] \in WithString
    /\ from_ne_bytes(SubSeq(bytes, 2, 1 + DwordSize), big_endian) = 1
    /\ bytes[Len(bytes)] >= 128

\* task t reads malformed bytes in this step
ReadsMalformed(t) ==
    /\ task[t].pc = "select"
    /\ task'[t].pc = "ended"
    /\ codec' # codec

\* C39: a handler that reads a frame with a malformed payload (answered
\* InvalidBoolean for a GetStatuses whose boolean byte is outside {0, 1},
\* InvalidStringEncoding for a text that is no UTF-8) leaves its loop,
\* unregisters and closes its connection in a step that applies nothing of
\* the frame (no line printed, nothing queued or sent, the process goes on)
\* and changes no other handler's state, inbox or connection
C39_MalformedIsLocal ==
    [][\A t \in Tasks :
          ReadsMalformed(t) =>
              /\ BadBoolean(codec'.bytes) => codec'.parse.error = "InvalidBoolean"
              /\ BadString(codec'.bytes, codec'.big_endian) =>
                     codec'.parse.error = "InvalidStringEncoding"
              /\ BadBoolean(codec'.bytes) \/ BadString(codec'.bytes, codec'.big_endian)
              /\ locked_data' = locked_data \ {t}
              /\ conn'[t] = "closed"
              /\ task'[t] = TaskState("ended")
              /\ UNCHANGED <<log, exit_code, wire, task_id>>
              /\ \A u \in Tasks \ {t} :
                    /\ task'[u] = task[u]
                    /\ inbox'[u] = inbox[u]
                    /\ conn'[u] = conn[u]]_vars

\* a handler has ended on a text that is no UTF-8 while another handler,
\* which holds an error status and is registered, is in its event loop
C39_Witness ==
    \E t \in Tasks : \E u \in Tasks \ {t} :
        /\ task[t].pc = "ended"
        /\ t \notin locked_data
        /\ codec.pc = "parsed"
        /\ codec.parse.error = "InvalidStringEncoding"
        /\ task[u].pc = "select"
        /\ task[u].status # StatusOk
        /\ u \in locked_data

\* one direction of a connection whose reader's select! may take another
\* branch at any moment
CancelNext ==
    \/ LinkNext
    \/ CancelReceive
CancelSpec == LinkInit /\ [][CancelNext]_vars

\* ------------------------------------------------------- receive claims
\* the bytes the reader has still to decode: its buffer, then the socket
Unread == link.buffer \o link.socket

\* C40: receive_async consumes exactly the bytes_used of the frame it returns
\* and nothing when it returns none.  At every moment the encodings of the
\* frames returned, followed by the bytes still unread, are the bytes written:
\* no byte is lost and none decoded twice, so that of whole frames written one
\* after the other, with nothing left unread, each has been returned once and
\* in order.  In every step that returns a frame the bytes taken off the front
\* of the unread bytes are the bytes_used of the decoding that gives this
\* frame, and a step that returns none and writes none (a decoding that fails,
\* a future of receive_async dropped by select!) leaves the unread bytes as
\* they were.
C40_ReceiveExact ==
    /\ [](Encoding(link.received) \o Unread = link.written)
    /\ []((link.written = Encoding(link.sent) /\ Unread = <<>>) => link.received = link.sent)
    /\ [][IF Len(link'.received) > Len(link.received)
          THEN LET n == Len(Unread) - Len(Unread')
                   c == link'.received[Len(link'.received)]
               IN  /\ link'.received = Append(link.received, c)
                   /\ n \in 1 .. Len(Unread)
                   /\ from_bytes(SubSeq(Unread, 1, n), link.big_endian) =
                          ServerCommandParse("None", c, n)
                   /\ Unread' = SubSeq(Unread, n + 1, Len(Unread))
          ELSE link'.written = link.written => Unread' = Unread]_vars

\* two frames came in one read: the first has been returned, the second is
\* whole in the BufReader, and the future of the next receive_async was
\* dropped once
C40_Witness ==
    /\ link.sent = <<Command(ID_SET_NAME, <<97>>, FALSE, <<>>), Command(ID_ABORT, <<>>, FALSE, <<>>)>>
    /\ link.received = <<Command(ID_SET_NAME, <<97>>, FALSE, <<>>)>>
    /\ link.buffer = to_bytes(Command(ID_ABORT, <<>>, FALSE, <<>>))
    /\ link.socket = <<>>
    /\ link.cancelled = 1

====
